---- MODULE Spec2Model ----
(***************************************************************************)
(* State-machine model of RobotSimulator (src/core/RobotSimulator.js, the  *)
(* copy in src/unnamed/part_001 lines 1-546): the move queue, the          *)
(* processQueue / executeMove coroutines, the interpolation step loops and *)
(* emergencyStop, together with the forward and inverse kinematics the     *)
(* moves use, the gripper (setGripper and its timer) and getState.         *)
(* Beside it: the visualizer's numerical inverse kinematics and joint      *)
(* animation (src/unnamed/part_004), the coordinate utilities Workspace,   *)
(* JointLimits and CoordinateValidator (src/src/utils/CoordinateSystem.js) *)
(* and MockRobotDriver with its factory (part_001 lines 553-848).          *)
(*                                                                         *)
(* Granularity: JavaScript runs one macrotask (an external call or a timer *)
(* callback) followed by every promise continuation it makes runnable, so  *)
(* each action below is one such macrotask with its continuations.         *)
(*                                                                         *)
(* Numbers: lengths are integers (mm), angles are integer degrees.  The    *)
(* trigonometric primitives are exact tables over the arguments the chosen *)
(* inputs produce (multiples of 90 degrees for sin/cos, axis and diagonal  *)
(* directions for atan2, -1/0/1 for acos); floating-point rounding (e.g.   *)
(* cos(PI/2) = 6.1e-17) is not modelled and the inputs are chosen where    *)
(* the doubles agree with the exact values.                                *)
(***************************************************************************)
EXTENDS Integers, Sequences, FiniteSets, TLC

(***************************************************************************)
(* Bounds of the model                                                     *)
(***************************************************************************)
\* number of calls in one behaviour that change the program state or hand out
\* a reference to it: moveTo, moveJoints, home and setGripper calls that pass
\* validation, emergencyStop calls, getState calls and the driver's connect
\* calls and accepted setRobotSpeed calls
MaxCalls == 3

(***************************************************************************)
(* Program constants                                                       *)
(***************************************************************************)
\* simulateMovement / simulateJointMovement: const steps = 20
steps == 20

\* config.workspace
workspace ==
  [x |-> [min |-> -1200, max |-> 1200],
   y |-> [min |-> -1200, max |-> 1200],
   z |-> [min |-> -500,  max |-> 1500]]

\* config.jointLimits (min/max)
jointLimits ==
  << [min |-> -360, max |-> 360], [min |-> -360, max |-> 360],
     [min |-> -165, max |-> 165], [min |-> -360, max |-> 360],
     [min |-> -360, max |-> 360], [min |-> -360, max |-> 360] >>

homeJointAngles == << 0, -90, -90, -90, 90, 0 >>
initJointAngles == << 0, -90, -90, -90, 90, 0 >>

\* JavaScript values that are not numbers or arrays of numbers
NaN == 999999
NULL == << 999999 >>

(***************************************************************************)
(* Trigonometry on the exact cases                                         *)
(***************************************************************************)
CosDeg(a) ==
  CASE a % 360 = 0   -> 1
    [] a % 360 = 90  -> 0
    [] a % 360 = 180 -> -1
    [] a % 360 = 270 -> 0

SinDeg(a) ==
  CASE a % 360 = 0   -> 0
    [] a % 360 = 90  -> 1
    [] a % 360 = 180 -> 0
    [] a % 360 = 270 -> -1

\* Math.atan2(y, x) in degrees
Atan2Deg(y, x) ==
  CASE y = 0 /\ x >= 0 -> 0
    [] y = 0 /\ x < 0  -> 180
    [] x = 0 /\ y > 0  -> 90
    [] x = 0 /\ y < 0  -> -90
    [] x > 0 /\ y = x  -> 45
    [] x > 0 /\ y = -x -> -45
    [] x < 0 /\ y = -x -> 135
    [] x < 0 /\ y = x  -> -135

\* Math.acos(num / den) in degrees
AcosDeg(num, den) ==
  CASE num = den  -> 0
    [] num = 0    -> 90
    [] num = -den -> 180

\* Math.sqrt on perfect squares
Sqrt(n) == CHOOSE r \in 0..2000 : r * r = n

(***************************************************************************)
(* Forward kinematics                                                      *)
(***************************************************************************)
\* dhParams: [a, alpha, d, theta_offset], alpha and theta_offset in degrees
dhParams ==
  << << 0,   0,   75,  0  >>,
     << 0,   90,  0,   90 >>,
     << 200, 0,   0,   0  >>,
     << 0,   90,  200, 0  >>,
     << 0,   -90, 0,   0  >>,
     << 0,   0,   70,  0  >> >>

Identity4 ==
  << <<1, 0, 0, 0>>, <<0, 1, 0, 0>>, <<0, 0, 1, 0>>, <<0, 0, 0, 1>> >>

\* entry (i, j) of A * B: the loop over k
MatrixEntry(A, B, i, j) ==
  A[i][1] * B[1][j] + A[i][2] * B[2][j] + A[i][3] * B[3][j] + A[i][4] * B[4][j]

MatrixRow(A, B, i) ==
  << MatrixEntry(A, B, i, 1), MatrixEntry(A, B, i, 2),
     MatrixEntry(A, B, i, 3), MatrixEntry(A, B, i, 4) >>

multiplyMatrix4x4(A, B) ==
  << MatrixRow(A, B, 1), MatrixRow(A, B, 2), MatrixRow(A, B, 3), MatrixRow(A, B, 4) >>

\* DH transformation matrix for joint i at angle deg
DHMatrix(i, deg) ==
  LET a     == dhParams[i][1]
      alpha == dhParams[i][2]
      d     == dhParams[i][3]
      theta == deg + dhParams[i][4]
  IN << << CosDeg(theta), -SinDeg(theta) * CosDeg(alpha),  SinDeg(theta) * SinDeg(alpha), a * CosDeg(theta) >>,
        << SinDeg(theta),  CosDeg(theta) * CosDeg(alpha), -CosDeg(theta) * SinDeg(alpha), a * SinDeg(theta) >>,
        << 0, SinDeg(alpha), CosDeg(alpha), d >>,
        << 0, 0, 0, 1 >> >>

RECURSIVE FKChain(_, _, _)
FKChain(T, joints, i) ==
  IF i > 6 THEN T
  ELSE FKChain(multiplyMatrix4x4(T, DHMatrix(i, joints[i])), joints, i + 1)

NaNPose == [x |-> NaN, y |-> NaN, z |-> NaN, rx |-> NaN, ry |-> NaN, rz |-> NaN]

\* calculateForwardKinematics(joints); a vector with fewer than 6 entries
\* reads undefined angles and every entry of the pose is NaN
calculateForwardKinematics(joints) ==
  IF Len(joints) < 6 THEN NaNPose
  ELSE LET T == FKChain(Identity4, joints, 1)
       IN [x  |-> T[1][4], y |-> T[2][4], z |-> T[3][4],
           rx |-> Atan2Deg(T[3][2], T[3][3]),
           ry |-> Atan2Deg(-T[3][1], Sqrt(T[3][2] * T[3][2] + T[3][3] * T[3][3])),
           rz |-> Atan2Deg(T[2][1], T[1][1])]

(***************************************************************************)
(* Inverse kinematics (geometric)                                          *)
(***************************************************************************)
d1 == 60
d2 == 40
a3 == 200
d4 == 150
d6 == 70

\* joint_limits inside calculateInverseKinematics
joint_limits ==
  << <<-180, 180>>, <<-90, 90>>, <<-150, 150>>,
     <<-180, 180>>, <<-120, 120>>, <<-360, 360>> >>

\* calculateInverseKinematics(position) with the default orientation
\* (pitch = PI/2, so cos(pitch) = 0 and sin(pitch) = 1) and elbow 'up';
\* returns NULL where the code returns null
calculateInverseKinematics(position) ==
  LET theta1  == Atan2Deg(position.y, position.x)
      wrist_x == position.x
      wrist_y == position.y
      wrist_z == position.z - d6
      r2      == wrist_x * wrist_x + wrist_y * wrist_y
      s       == wrist_z - d1 - d2
      D2      == r2 + s * s
      max_reach == a3 + d4
      min_reach == IF a3 >= d4 THEN a3 - d4 ELSE d4 - a3
  IN IF D2 > max_reach * max_reach THEN NULL
     ELSE IF D2 < min_reach * min_reach THEN NULL
     ELSE
       LET r      == Sqrt(r2)
           D      == Sqrt(D2)
           theta3 == AcosDeg(a3 * a3 + d4 * d4 - D2, 2 * a3 * d4)
           alpha  == Atan2Deg(s, r)
           beta   == AcosDeg(a3 * a3 + D2 - d4 * d4, 2 * a3 * D)
           theta2 == alpha - beta
           theta4 == 0
           theta5 == -(theta2 + theta3 - 90)
           theta6 == 0
           angles_deg == << theta1, theta2, theta3, theta4, theta5, theta6 >>
       IN IF \E i \in 1..6 : angles_deg[i] < joint_limits[i][1]
                             \/ angles_deg[i] > joint_limits[i][2]
          THEN NULL
          ELSE angles_deg

(***************************************************************************)
(* Validation                                                              *)
(***************************************************************************)
\* as validatePosition, but x is checked against its lower bound only
validatePosition_noXMax(position) ==
  /\ position.x >= workspace.x.min
  /\ position.y >= workspace.y.min /\ position.y <= workspace.y.max
  /\ position.z >= workspace.z.min /\ position.z <= workspace.z.max

validatePosition(position) ==
  /\ position.x >= workspace.x.min /\ position.x <= workspace.x.max
  /\ position.y >= workspace.y.min /\ position.y <= workspace.y.max
  /\ position.z >= workspace.z.min /\ position.z <= workspace.z.max

\* as validateJoints, but every angle is checked against the limits of joint 1
validateJoints_firstLimit(joints) ==
  \A i \in 1..Len(joints) :
     ~(joints[i] < jointLimits[1].min \/ joints[i] > jointLimits[1].max)

\* loops over joints.length entries only
validateJoints(joints) ==
  \A i \in 1..Len(joints) :
     ~(joints[i] < jointLimits[i].min \/ joints[i] > jointLimits[i].max)

(***************************************************************************)
(* Inputs                                                                  *)
(***************************************************************************)
\* moveTo targets <<x, y, z>>: reachable by the IK, beyond max_reach, in reach
\* but beyond the IK's joint_limits, and outside the workspace in x or in z
Targets ==
  { << 0, 0, 220 >>, << 1000, 0, 200 >>, << 0, 0, 120 >>,
    << 1300, 0, 200 >>, << 0, 0, -600 >> }

\* moveJoints targets: within limits, elbow above its limit, and base below
\* its limit
JointTargets ==
  { << 90, 0, 0, 0, 0, 0 >>, << 0, 0, 180, 0, 0, 0 >>, << -450, 0, 0, 0, 0, 0 >> }

Pos(t) == [x |-> t[1], y |-> t[2], z |-> t[3]]
PosSeq(p) == << p.x, p.y, p.z >>

(***************************************************************************)
(* Numerical inverse kinematics of the visualizer (class Kinematics).      *)
(* Angles are kept in degrees; the source works in radians and converts    *)
(* at the boundary of RobotVisualizer.                                     *)
(***************************************************************************)
\* extractDHParameters: [a, alpha, d, theta], alpha and theta in degrees
kinematicsDhParams ==
  << << 0,  90,  35, 0 >>,
     << 80, 0,   0,  0 >>,
     << 80, 0,   0,  0 >>,
     << 0,  90,  50, 0 >>,
     << 0,  -90, 30, 0 >>,
     << 0,  0,   15, 0 >> >>

\* the ranges of j1..j6 in ROBOT_6DOF_CONFIG.joints, degrees
jointRanges ==
  << << -180, 180 >>, << -90, 90 >>, << -90, 90 >>,
     << -180, 180 >>, << -180, 180 >>, << -180, 180 >> >>

createDHTransformMatrix(dh) ==
  LET a == dh[1]  alpha == dh[2]  d == dh[3]  theta == dh[4]
      ct == CosDeg(theta)  st == SinDeg(theta)
      ca == CosDeg(alpha)  sa == SinDeg(alpha)
  IN << << ct, -st * ca,  st * sa, a * ct >>,
        << st,  ct * ca, -ct * sa, a * st >>,
        << 0,   sa,       ca,      d >>,
        << 0,   0,        0,       1 >> >>

\* the loop of forwardKinematics: dh.theta += jointAngles[i]; T = T * Ti
RECURSIVE KinematicsChain(_, _, _)
KinematicsChain(T, jointAngles, i) ==
  IF i > 6 THEN T
  ELSE LET dh == kinematicsDhParams[i]
           Ti == createDHTransformMatrix(<< dh[1], dh[2], dh[3], dh[4] + jointAngles[i] >>)
       IN KinematicsChain(multiplyMatrix4x4(T, Ti), jointAngles, i + 1)

NaNVector == << NaN, NaN, NaN, NaN, NaN, NaN >>
HasNaN(v) == \E i \in 1..Len(v) : v[i] = NaN

\* forwardKinematics(jointAngles): throws unless there are 6 angles; a NaN
\* angle puts NaN into its DH matrix (a * cos(NaN)) and from there into
\* every entry of the position
forwardKinematics(jointAngles) ==
  IF Len(jointAngles) # 6
    THEN [thrown |-> TRUE, position |-> [x |-> NaN, y |-> NaN, z |-> NaN]]
  ELSE IF HasNaN(jointAngles)
    THEN [thrown |-> FALSE, position |-> [x |-> NaN, y |-> NaN, z |-> NaN]]
  ELSE LET T == KinematicsChain(Identity4, jointAngles, 1)
       IN [thrown |-> FALSE, position |-> [x |-> T[1][4], y |-> T[2][4], z |-> T[3][4]]]

maxIterations == 100
\* tolerance = 0.001
tolerance == [num |-> 1, den |-> 1000]

\* errorMagnitude < tolerance, compared on the squares; false for NaN
BelowTolerance(target, position) ==
  /\ position.x # NaN
  /\ LET ex == target.x - position.x
         ey == target.y - position.y
         ez == target.z - position.z
         squared == ex * ex + ey * ey + ez * ez
     IN /\ squared < tolerance.num * tolerance.num
        /\ squared * tolerance.den * tolerance.den < tolerance.num * tolerance.num

\* solveLinearSystem(jacobian, error).  The jacobian is 3 x 6 and its column
\* for joint 6 is zero (a = 0 for the last link: the end-effector position
\* does not depend on theta 6), so AT*A is a singular 6 x 6 matrix with a
\* zero row.  gaussianElimination has no pivot test and no throw: it divides
\* 0 by 0 for that row and back substitution carries the NaN into every
\* component of the solution.
solveLinearSystem(jointAngles, error) == NaNVector

\* jointAngles[i] += deltaAngles[i] * stepSize, then
\* Math.max(minRad, Math.min(maxRad, jointAngles[i])): NaN stays NaN
UpdateAngle(angle, delta, range) ==
  IF angle = NaN \/ delta = NaN THEN NaN
  ELSE IF angle + delta > range[2] THEN range[2]
  ELSE IF angle + delta < range[1] THEN range[1]
  ELSE angle + delta

UpdatedAngle(jointAngles, deltaAngles, i) ==
  UpdateAngle(jointAngles[i], deltaAngles[i], jointRanges[i])

\* for (let i = 0; i < 6; i++)
UpdateAngles(jointAngles, deltaAngles) ==
  << UpdatedAngle(jointAngles, deltaAngles, 1), UpdatedAngle(jointAngles, deltaAngles, 2),
     UpdatedAngle(jointAngles, deltaAngles, 3), UpdatedAngle(jointAngles, deltaAngles, 4),
     UpdatedAngle(jointAngles, deltaAngles, 5), UpdatedAngle(jointAngles, deltaAngles, 6) >>

\* iteration < maxIterations
LoopGuard_inclusive(iteration) == iteration <= maxIterations

LoopGuard(iteration) == iteration < maxIterations

\* one pass of the for loop of inverseKinematics on the loop's variables.
\* The caller receives `thrown' and `value' only; `branch' names the return
\* statement taken ("running" while the loop goes on) and `visited' lists
\* jointAngles at the start of every pass.  Nothing inside the try block
\* throws, so its catch is never entered.
LoopPass(target, l) ==
  IF l.branch # "running" THEN l
  ELSE IF ~LoopGuard(l.iteration) THEN [l EXCEPT !.branch = "exhausted"]
  ELSE LET current == forwardKinematics(l.value)
           error == << target.x - current.position.x,
                       target.y - current.position.y,
                       target.z - current.position.z >>
       IN IF current.thrown
            THEN [thrown |-> TRUE, value |-> << >>, branch |-> "throw",
                  iteration |-> l.iteration, visited |-> Append(l.visited, l.value)]
          ELSE IF BelowTolerance(target, current.position)
            THEN [l EXCEPT !.branch = "converged",
                           !.visited = Append(l.visited, l.value)]
          ELSE [l EXCEPT !.value = UpdateAngles(l.value, solveLinearSystem(l.value, error)),
                         !.iteration = l.iteration + 1,
                         !.visited = Append(l.visited, l.value)]

\* up to n passes in a row, split in halves to keep the evaluation shallow;
\* no pass is made once the loop has returned or thrown
RECURSIVE LoopPasses(_, _, _)
LoopPasses(target, l, n) ==
  IF n = 1 THEN LoopPass(target, l)
  ELSE LET half == LoopPasses(target, l, n \div 2)
       IN IF half.branch # "running" THEN half
          ELSE LoopPasses(target, half, n - n \div 2)

\* passes until the loop has returned or thrown
RECURSIVE RunLoop(_, _, _)
RunLoop(target, l, n) ==
  LET m == LoopPasses(target, l, n)
  IN IF m.branch # "running" THEN m ELSE RunLoop(target, m, 2 * n)

\* inverseKinematics(target, initialGuess = null)
inverseKinematics(target, initialGuess) ==
  RunLoop(target,
          [thrown |-> FALSE,
           value |-> IF initialGuess = NULL THEN << 0, 0, 0, 0, 0, 0 >> ELSE initialGuess,
           branch |-> "running", iteration |-> 0, visited |-> << >>],
          1)

(***************************************************************************)
(* Coordinate utilities (CoordinateSystem.js): Vector3, Workspace,         *)
(* JointLimits, CoordinateValidator                                        *)
(***************************************************************************)
\* value || fallback on numbers: 0 and NaN are falsy
OrDefault(value, fallback) == IF value = 0 \/ value = NaN THEN fallback ELSE value

\* Vector3.from(obj): a new object
Vector3_from(obj) ==
  [x |-> OrDefault(obj.x, 0), y |-> OrDefault(obj.y, 0), z |-> OrDefault(obj.z, 0)]

\* the bounds a Workspace starts from
defaultBounds ==
  [x |-> [min |-> -500, max |-> 500],
   y |-> [min |-> -500, max |-> 500],
   z |-> [min |-> 0, max |-> 800]]

\* new Workspace(config): { x, y, z defaults, ...config }; config is a record
\* with some of the fields x, y, z, or << >> for none
Workspace(config) ==
  [bounds |-> [axis \in { "x", "y", "z" } |->
                 IF axis \in DOMAIN config THEN config[axis] ELSE defaultBounds[axis]],
   safetyMargin |-> 10]

\* new JointLimits(limits): limit.min || -180, limit.max || 180, ...
JointLimits(limits) ==
  [limits |-> [i \in 1..Len(limits) |->
                 [min |-> OrDefault(limits[i].min, -180),
                  max |-> OrDefault(limits[i].max, 180),
                  maxSpeed |-> 100, maxAcceleration |-> 500]]]

\* new CoordinateValidator(config) with no settings given and no obstacle
\* added; `configured' keeps the joint limits as they were passed in
CoordinateValidator(config) ==
  [workspace |-> Workspace(config.workspace),
   jointLimits |-> JointLimits(config.jointLimits),
   configured |-> config.jointLimits,
   obstacles |-> << >>,
   settings |-> [enforceWorkspace |-> TRUE, enforceJointLimits |-> TRUE,
                 enforceCollision |-> TRUE, pathValidation |-> TRUE]]

isPositionValid(w, position) ==
  LET pos == Vector3_from(position)
  IN /\ pos.x >= w.bounds.x.min /\ pos.x <= w.bounds.x.max
     /\ pos.y >= w.bounds.y.min /\ pos.y <= w.bounds.y.max
     /\ pos.z >= w.bounds.z.min /\ pos.z <= w.bounds.z.max

isPositionSafe(w, position) ==
  LET pos == Vector3_from(position)
      margin == w.safetyMargin
  IN /\ pos.x >= w.bounds.x.min + margin /\ pos.x <= w.bounds.x.max - margin
     /\ pos.y >= w.bounds.y.min + margin /\ pos.y <= w.bounds.y.max - margin
     /\ pos.z >= w.bounds.z.min + margin /\ pos.z <= w.bounds.z.max - margin

\* Math.max(lo, Math.min(hi, value))
MaxMin(lo, hi, value) ==
  LET m == IF value < hi THEN value ELSE hi
  IN IF m > lo THEN m ELSE lo

MaxMin_noUpper(lo, hi, value) == IF value > lo THEN value ELSE lo

clampPosition_noUpper(w, position) ==
  LET pos == Vector3_from(position)
  IN [x |-> MaxMin_noUpper(w.bounds.x.min, w.bounds.x.max, pos.x),
      y |-> MaxMin_noUpper(w.bounds.y.min, w.bounds.y.max, pos.y),
      z |-> MaxMin_noUpper(w.bounds.z.min, w.bounds.z.max, pos.z)]

\* Workspace.clampPosition: a new Vector3
clampPosition(w, position) ==
  LET pos == Vector3_from(position)
  IN [x |-> MaxMin(w.bounds.x.min, w.bounds.x.max, pos.x),
      y |-> MaxMin(w.bounds.y.min, w.bounds.y.max, pos.y),
      z |-> MaxMin(w.bounds.z.min, w.bounds.z.max, pos.z)]

\* JointLimits.validateJoints: forEach over the joints, skipping the indices
\* that have no limit; joint is the 0-based index
JointLimits_validateJoints(jl, joints) ==
  LET n == IF Len(joints) < Len(jl.limits) THEN Len(joints) ELSE Len(jl.limits)
      entry(i) == [joint |-> i - 1, angle |-> joints[i], limit |-> jl.limits[i],
                   type |-> "position"]
      violates(i) == joints[i] < jl.limits[i].min \/ joints[i] > jl.limits[i].max
      violations == SelectSeq([i \in 1..n |-> i], violates)
  IN [valid |-> violations = << >>,
      violations |-> [k \in 1..Len(violations) |-> entry(violations[k])]]

clampJoints_noUpper(jl, joints) ==
  [i \in 1..Len(joints) |->
     IF i > Len(jl.limits) THEN joints[i]
     ELSE MaxMin_noUpper(jl.limits[i].min, jl.limits[i].max, joints[i])]

\* JointLimits.clampJoints: joints.map, a new array
clampJoints(jl, joints) ==
  [i \in 1..Len(joints) |->
     IF i > Len(jl.limits) THEN joints[i]
     ELSE MaxMin(jl.limits[i].min, jl.limits[i].max, joints[i])]

\* checkCollision: the first obstacle that intersects; none has been added
checkCollision(v, pos) == [collision |-> Len(v.obstacles) > 0]

\* an entry of result.errors or result.warnings: the text and the values
\* formatted into it
Message(text, values) == [text |-> text, values |-> values]

\* CoordinateValidator.validatePosition(position, context); correctedPosition
\* is null or the clamped Vector3, written here as << x, y, z >>
CoordinateValidator_validatePosition(v, position, autoCorrect) ==
  LET pos == Vector3_from(position)
      inside == isPositionValid(v.workspace, pos)
      outsideWorkspace == v.settings.enforceWorkspace /\ ~inside
      nearBoundary == v.settings.enforceWorkspace /\ inside /\ ~isPositionSafe(v.workspace, pos)
      collision == v.settings.enforceCollision /\ checkCollision(v, pos).collision
  IN [valid |-> ~outsideWorkspace /\ ~collision,
      warnings |-> IF nearBoundary
                     THEN << Message("Position near workspace boundary", << >>) >>
                     ELSE << >>,
      errors |-> (IF outsideWorkspace
                    THEN << Message("Position outside workspace bounds", << >>) >>
                    ELSE << >>)
                 \o (IF collision
                       THEN << Message("Collision detected with obstacle", << >>) >>
                       ELSE << >>),
      corrected |-> IF outsideWorkspace /\ autoCorrect
                      THEN PosSeq(clampPosition(v.workspace, pos)) ELSE NULL]

\* CoordinateValidator.validateJoints(joints, context); corrected is
\* correctedJoints
CoordinateValidator_validateJoints(v, joints, autoCorrect) ==
  LET validation == JointLimits_validateJoints(v.jointLimits, joints)
      exceeded == v.settings.enforceJointLimits /\ ~validation.valid
  IN [valid |-> ~exceeded,
      warnings |-> << >>,
      errors |-> IF exceeded
                   THEN << Message("Joint limits exceeded", << >>) >>
                        \o [k \in 1..Len(validation.violations) |->
                              Message("Joint",
                                      << validation.violations[k].joint + 1,
                                         validation.violations[k].angle,
                                         validation.violations[k].limit.min,
                                         validation.violations[k].limit.max >>)]
                   ELSE << >>,
      corrected |-> IF exceeded /\ autoCorrect
                      THEN clampJoints(v.jointLimits, joints) ELSE NULL]

(***************************************************************************)
(* Workspace.isPathValid on JavaScript numbers.                            *)
(* A number is an IEEE 754 double; the sum and the difference of two       *)
(* doubles are rounded to 53 significant bits, ties to even.  The doubles  *)
(* x with |x| < 2048 that are multiples of 2^-45 are written << hi, lo >>  *)
(* for (hi * 2^27 + lo) * 2^-45 with 0 <= lo < 2^27.                       *)
(***************************************************************************)
Limb == 2^27

\* the integer n as a double
Double(n) == << n * 2^18, 0 >>

DNormal(hi, lo) == << hi + (lo \div Limb), lo % Limb >>

DNeg(a) == DNormal(-a[1], -a[2])

DAbs(a) == IF a[1] < 0 THEN DNeg(a) ELSE a

\* the exact sum
DSum(a, b) == DNormal(a[1] + b[1], a[2] + b[2])

DLeq(a, b) == a[1] < b[1] \/ (a[1] = b[1] /\ a[2] <= b[2])

\* the distance between neighbouring doubles at the magnitude of a, in
\* units of 2^-45: 1 below 256, 2 below 512, 4 below 1024, 8 below 2048
Ulp(a) ==
  LET h == DAbs(a)[1]
  IN IF h < 2^26 THEN 1 ELSE IF h < 2^27 THEN 2 ELSE IF h < 2^28 THEN 4 ELSE 8

\* the double nearest to the exact value a, ties to the even neighbour
Round(a) ==
  LET m    == Ulp(a)
      r    == a[2] % m
      down == DNormal(a[1], a[2] - r)
      up   == DNormal(a[1], a[2] - r + m)
  IN IF r = 0 THEN a
     ELSE IF 2 * r < m THEN down
     ELSE IF 2 * r > m THEN up
     ELSE IF (down[2] \div m) % 2 = 0 THEN down ELSE up

\* a * 0.5, exact for an even multiple of 2^-45
DHalf(a) == << a[1] \div 2, ((a[1] % 2) * Limb + a[2]) \div 2 >>

\* Vector3.subtract, Vector3.add: positions are << x, y, z >> of doubles
Vector3_subtract(a, b) ==
  << Round(DSum(a[1], DNeg(b[1]))), Round(DSum(a[2], DNeg(b[2]))),
     Round(DSum(a[3], DNeg(b[3]))) >>

Vector3_add(a, b) ==
  << Round(DSum(a[1], b[1])), Round(DSum(a[2], b[2])), Round(DSum(a[3], b[3])) >>

\* c * t for t = i / steps equal to 0, 1/2 or 1, where the quotient and the
\* product are exact
Times(c, i, nSteps) ==
  IF i = 0 THEN Double(0) ELSE IF i = nSteps THEN c ELSE DHalf(c)

\* Vector3.multiply(t) with t = i / steps
Vector3_multiply(v, i, nSteps) ==
  << Times(v[1], i, nSteps), Times(v[2], i, nSteps), Times(v[3], i, nSteps) >>

\* Workspace.isPositionValid on doubles; Vector3.from leaves numbers as
\* they are (0 || 0 is 0)
isPositionValidDouble(w, pos) ==
  /\ DLeq(Double(w.bounds.x.min), pos[1]) /\ DLeq(pos[1], Double(w.bounds.x.max))
  /\ DLeq(Double(w.bounds.y.min), pos[2]) /\ DLeq(pos[2], Double(w.bounds.y.max))
  /\ DLeq(Double(w.bounds.z.min), pos[3]) /\ DLeq(pos[3], Double(w.bounds.z.max))

\* the sample of step i: start.add(end.subtract(start).multiply(t))
PathSample(start, end, i, nSteps) ==
  Vector3_add(start, Vector3_multiply(Vector3_subtract(end, start), i, nSteps))

\* Workspace.isPathValid(startPos, endPos, steps): false at the first sample
\* that is not valid, true when the loop ends
isPathValid(w, startPos, endPos, nSteps) ==
  \A i \in 0..nSteps : isPositionValidDouble(w, PathSample(startPos, endPos, i, nSteps))

(***************************************************************************)
(* Forward and geometric inverse kinematics on fractional angles.          *)
(* The inverse kinematics answers with angles that are no multiples of 90  *)
(* degrees, so feeding them back to the forward kinematics needs the       *)
(* library functions off the exact cases.  Here angles are integer         *)
(* millidegrees, sines and cosines integer thousandths and lengths integer *)
(* micrometres; Math.sqrt, Math.acos, Math.atan2, Math.cos and Math.sin    *)
(* are tables of their values, rounded to that unit, at the arguments the  *)
(* chosen joint vectors produce, and every product of two scaled numbers   *)
(* is rounded back to the unit.  The rounding moves a position by less     *)
(* than 1 mm.                                                              *)
(***************************************************************************)
\* Math.sqrt(n) in thousandths, n in mm^2
SqrtMilli(n) ==
  CASE n = 16900 -> 130000
    [] n = 27925 -> 167108
    [] n = 56900 -> 238537
    [] n = 65925 -> 256759
    [] n = 72900 -> 270000
    [] n = 83925 -> 289698
    [] n = 103925 -> 322374
    [] n = 112900 -> 336006
    [] n = 121925 -> 349178

\* Math.acos(num / den) in millidegrees
AcosMilli(num, den) ==
  CASE num = -59425 /\ den = 60000 -> 172061
    [] num = -41425 /\ den = 60000 -> 133663
    [] num = -21425 /\ den = 60000 -> 110921
    [] num = -3425 /\ den = 60000 -> 93272
    [] num = 34575 /\ den = 60000 -> 54813
    [] num = 45425000 /\ den = 66843200 -> 47190
    [] num = 83425000 /\ den = 102703600 -> 35680
    [] num = 101425000 /\ den = 115879200 -> 28924
    [] num = 121425000 /\ den = 128949600 -> 19670
    [] num = 139425000 /\ den = 139671200 -> 3402

\* Math.atan2(y, x) in millidegrees
Atan2Milli(y, x) ==
  CASE y = -295000 /\ x = 130000 -> -66218
    [] y = -95000 /\ x = 238537 -> -21715
    [] y = -95000 /\ x = 336006 -> -15787
    [] y = -270 /\ x = 0 -> -90000
    [] y = -270 /\ x = 200 -> -53471
    [] y = -130 /\ x = 0 -> -90000
    [] y = -130 /\ x = 200 -> -33024
    [] y = 0 /\ x = 130 -> 0
    [] y = 0 /\ x = 270 -> 0
    [] y = 130 /\ x = -200 -> 146976
    [] y = 130 /\ x = 0 -> 90000
    [] y = 200 /\ x = 130 -> 56976
    [] y = 200 /\ x = 270 -> 36529
    [] y = 270 /\ x = -200 -> 126529
    [] y = 270 /\ x = 0 -> 90000
    [] y = 105000 /\ x = 130000 -> 38928
    [] y = 105000 /\ x = 270000 -> 21251

\* Math.cos and Math.sin in thousandths at angles in 0 .. 359999 millidegrees
CosTable(a) ==
  CASE a = 0 -> 1000
    [] a = 4112 -> 997
    [] a = 32605 -> 842
    [] a = 42225 -> 741
    [] a = 43449 -> 726
    [] a = 54123 -> 586
    [] a = 54813 -> 576
    [] a = 56976 -> 545
    [] a = 81738 -> 144
    [] a = 82327 -> 134
    [] a = 90000 -> 0
    [] a = 93272 -> -57
    [] a = 110921 -> -357
    [] a = 133663 -> -690
    [] a = 146976 -> -838
    [] a = 270000 -> 0
    [] a = 326976 -> 838
    [] a = 346752 -> 973

SinTable(a) ==
  CASE a = 0 -> 0
    [] a = 4112 -> 72
    [] a = 32605 -> 539
    [] a = 42225 -> 672
    [] a = 43449 -> 688
    [] a = 54123 -> 810
    [] a = 54813 -> 817
    [] a = 56976 -> 838
    [] a = 81738 -> 990
    [] a = 82327 -> 991
    [] a = 90000 -> 1000
    [] a = 93272 -> 998
    [] a = 110921 -> 934
    [] a = 133663 -> 723
    [] a = 146976 -> 545
    [] a = 270000 -> -1000
    [] a = 326976 -> -545
    [] a = 346752 -> -229

CosMilli(a) == CosTable(a % 360000)
SinMilli(a) == SinTable(a % 360000)

\* a product of two numbers in thousandths, rounded to thousandths
RoundDiv(n) == (n + 500) \div 1000

\* Ti for joint i at angle mdeg: the rotation part in thousandths, the
\* translation column in micrometres, the last row is 0 0 0 1
DHMatrixMilli(i, mdeg) ==
  LET a     == dhParams[i][1]
      alpha == dhParams[i][2]
      d     == dhParams[i][3]
      theta == mdeg + 1000 * dhParams[i][4]
      c     == CosMilli(theta)
      s     == SinMilli(theta)
  IN << << c, -s * CosDeg(alpha),     s * SinDeg(alpha),     a * c >>,
        << s,  c * CosDeg(alpha),     -c * SinDeg(alpha),    a * s >>,
        << 0,  1000 * SinDeg(alpha),  1000 * CosDeg(alpha),  1000 * d >>,
        << 0, 0, 0, 1 >> >>

\* entry (i, j) of A * B for i <= 3: the loop over k, where the term for k = 4
\* is A[i][4] * B[4][j] and the last row of B is 0 0 0 1
MatrixEntryMilli(A, B, i, j) ==
  RoundDiv(A[i][1] * B[1][j] + A[i][2] * B[2][j] + A[i][3] * B[3][j])
    + (IF j = 4 THEN A[i][4] ELSE 0)

MatrixRowMilli(A, B, i) ==
  << MatrixEntryMilli(A, B, i, 1), MatrixEntryMilli(A, B, i, 2),
     MatrixEntryMilli(A, B, i, 3), MatrixEntryMilli(A, B, i, 4) >>

multiplyMatrix4x4Milli(A, B) ==
  << MatrixRowMilli(A, B, 1), MatrixRowMilli(A, B, 2), MatrixRowMilli(A, B, 3),
     << 0, 0, 0, 1 >> >>

IdentityMilli ==
  << <<1000, 0, 0, 0>>, <<0, 1000, 0, 0>>, <<0, 0, 1000, 0>>, <<0, 0, 0, 1>> >>

RECURSIVE FKChainMilli(_, _, _)
FKChainMilli(T, joints, i) ==
  IF i > 6 THEN T
  ELSE FKChainMilli(multiplyMatrix4x4Milli(T, DHMatrixMilli(i, joints[i])), joints, i + 1)

\* the position part of calculateForwardKinematics(joints), joints in
\* millidegrees, the position in micrometres
calculateForwardKinematicsMilli(joints) ==
  LET T == FKChainMilli(IdentityMilli, joints, 1)
  IN [x |-> T[1][4], y |-> T[2][4], z |-> T[3][4]]

\* calculateInverseKinematics(position), position in whole millimetres, with
\* the default orientation and elbow 'up'; the angles in millidegrees, NULL
\* where the code returns null.  D * D is taken as r * r + s * s.
calculateInverseKinematicsMilli(position) ==
  LET theta1  == Atan2Milli(position.y, position.x)
      wrist_x == position.x
      wrist_y == position.y
      wrist_z == position.z - d6
      r2      == wrist_x * wrist_x + wrist_y * wrist_y
      s       == wrist_z - d1 - d2
      D2      == r2 + s * s
      max_reach == a3 + d4
      min_reach == IF a3 >= d4 THEN a3 - d4 ELSE d4 - a3
  IN IF D2 > max_reach * max_reach THEN NULL
     ELSE IF D2 < min_reach * min_reach THEN NULL
     ELSE
       LET r      == SqrtMilli(r2)
           D      == SqrtMilli(D2)
           theta3 == AcosMilli(a3 * a3 + d4 * d4 - D2, 2 * a3 * d4)
           alpha  == Atan2Milli(1000 * s, r)
           beta   == AcosMilli(1000 * (a3 * a3 + D2 - d4 * d4), 2 * a3 * D)
           theta2 == alpha - beta
           theta4 == 0
           theta5 == -(theta2 + theta3 - 90000)
           theta6 == 0
           angles_deg == << theta1, theta2, theta3, theta4, theta5, theta6 >>
       IN IF \E i \in 1..6 : angles_deg[i] < 1000 * joint_limits[i][1]
                             \/ angles_deg[i] > 1000 * joint_limits[i][2]
          THEN NULL
          ELSE angles_deg

(***************************************************************************)
(* State                                                                   *)
(***************************************************************************)
VARIABLES
  state,              \* this.state (the one RobotState object)
  moveQueue,          \* this.moveQueue
  isProcessingQueue,  \* this.isProcessingQueue
  active,             \* executeMove calls suspended in their step loop
  requests,           \* the accepted moveTo/moveJoints/home calls and their promises
  resolvedAt,         \* RobotState at the moment a request was resolved
  nextId,             \* number of the next accepted call
  stopped,            \* requests that were executing at an emergencyStop
  stops,              \* number of emergencyStop calls counted towards MaxCalls
  lastCall,           \* the accepted move the latest call made, 0 after an emergencyStop
  gripperTimers,      \* the pending 200 ms timers of setGripper, oldest first
  gripperPromises,    \* the promises of the accepted setGripper calls
  snapshots,          \* the objects getState has returned so far
  event,              \* the last macrotask: call, outcome, emissions, requests begun
  viz,                \* RobotVisualizer: the joints' currentAngle, animations, toast
  ikCall,             \* the latest call of Kinematics.inverseKinematics and its outcome
  validator,          \* a CoordinateValidator: its workspace, joint limits, settings
  coordCall,          \* the latest call on the validator or its parts and its outcome
  driver,             \* a MockRobotDriver around the simulator: isConnected, connects
  driverCall,         \* the latest call on the driver or the factory and its outcome
  roundTrip           \* a joint vector taken through forward, inverse, forward kinematics

vars == << state, moveQueue, isProcessingQueue, active, requests,
           resolvedAt, nextId, stopped, stops, lastCall, gripperTimers,
           gripperPromises, snapshots, event, viz, ikCall,
           validator, coordCall, driver, driverCall, roundTrip >>

\* what the move operations leave alone, and what the gripper operations and
\* getState leave alone
gripperVars == << gripperTimers, gripperPromises, snapshots >>
moveVars == << moveQueue, isProcessingQueue, active, requests, resolvedAt,
              nextId, stopped, stops, lastCall >>

\* the components beside the simulator; the simulator leaves them alone
visualizerVars == << viz, ikCall >>
coordinateVars == << validator, coordCall >>
driverVars == << driver, driverCall >>
kinematicsVars == << roundTrip >>
componentVars == << visualizerVars, coordinateVars, driverVars, kinematicsVars >>

Ids == 1..MaxCalls

\* follows: the accepted move whose call came right before this one;
\* returned: the value the promise handed to the caller is resolved with
NoRequest == [type |-> "none", target |-> << >>, home |-> FALSE,
              status |-> "none", error |-> "none", value |-> "none",
              follows |-> 0, returned |-> "none"]

initialPose == calculateForwardKinematics(initJointAngles)

\* this.state as the constructor leaves it
initialState ==
  [joints      |-> initJointAngles,
   position    |-> [x |-> initialPose.x, y |-> initialPose.y, z |-> initialPose.z],
   orientation |-> [rx |-> initialPose.rx, ry |-> initialPose.ry, rz |-> initialPose.rz],
   gripper     |-> [isOpen |-> TRUE, position |-> 0, force |-> 0],
   isMoving    |-> FALSE,
   isHomed     |-> FALSE,
   lastError   |-> "null"]

\* every joint is created with currentAngle = 0; no animation, no toast
initialViz == [angles |-> << 0, 0, 0, 0, 0, 0 >>, animating |-> << >>, toast |-> "none"]

NoIKCall == [caller |-> "none", target |-> << >>, initialGuess |-> << >>,
             result |-> [thrown |-> FALSE, value |-> << >>, branch |-> "none",
                         iteration |-> 0, visited |-> << >>],
             commanded |-> << >>]

\* new MockRobotDriver(): not connected; pending counts the connect() calls
\* whose timer has not fired, connects all connect() calls made, speedCalls
\* the setRobotSpeed calls that passed the range check; maxSpeed is
\* simulator.config.maxSpeed (100 degrees/second) in units of 1/256
MockRobotDriver == [isConnected |-> FALSE, pending |-> 0, connects |-> 0,
                    maxSpeed |-> 256 * 100, speedCalls |-> 0]

\* connected: isConnected when the call was made; random: the branch that
\* Math.random() selected; position: what getCurrentPosition or
\* getCurrentJoints returned; emitted: the names the call itself passed to
\* simulator.emit
NoDriverCall == [op |-> "none", type |-> "none", target |-> << >>,
                 connected |-> FALSE, random |-> "none", result |-> "none",
                 position |-> << >>, emitted |-> << >>]

\* argument: the object passed to the call as the call leaves it
NoCoordCall == [op |-> "none", input |-> << >>, autoCorrect |-> FALSE,
                result |-> << >>, argument |-> << >>]

\* stage: what was applied last; position: forward(joints).position;
\* solution: inverseGeometric(position); reproduced: forward(solution).position
NoRoundTrip == [stage |-> "none", joints |-> << >>, position |-> << >>,
                solution |-> << >>, reproduced |-> << >>]

ComponentInit ==
  /\ roundTrip = NoRoundTrip
  /\ viz = initialViz
  /\ ikCall = NoIKCall
  /\ validator = CoordinateValidator([workspace |-> << >>, jointLimits |-> << >>])
  /\ coordCall = NoCoordCall
  /\ driver = MockRobotDriver
  /\ driverCall = NoDriverCall

Init ==
  /\ ComponentInit
  /\ state = initialState
  /\ moveQueue = << >>
  /\ isProcessingQueue = FALSE
  /\ active = {}
  /\ requests = [id \in Ids |-> NoRequest]
  /\ resolvedAt = << >>
  /\ nextId = 1
  /\ stopped = {}
  /\ stops = 0
  /\ lastCall = 0
  /\ gripperTimers = << >>
  /\ gripperPromises = << >>
  /\ snapshots = << >>
  /\ event = [op |-> "init", id |-> 0, target |-> << >>, result |-> "none",
              emitted |-> << >>, began |-> << >>]

(***************************************************************************)
(* The machine a macrotask works on: the program state plus what the task  *)
(* has emitted and which requests it has started                           *)
(***************************************************************************)
\* the calls made so far that count towards MaxCalls
Calls == (nextId - 1) + stops + Len(gripperPromises) + Len(snapshots)
           + driver.connects + driver.speedCalls

Machine ==
  [state |-> state, moveQueue |-> moveQueue,
   isProcessingQueue |-> isProcessingQueue, active |-> active,
   requests |-> requests, resolvedAt |-> resolvedAt, lastCall |-> lastCall,
   result |-> "none", emitted |-> << >>, began |-> << >>]

\* this.emit(name, data); id is the request the emission belongs to and i
\* the interpolation step
emit(m, name, id, i, data) ==
  [m EXCEPT !.emitted = Append(@, [name |-> name, id |-> id, i |-> i, data |-> data])]

\* steps * (start + (end - start) * i / steps)
Lerp(start, end, i) ==
  IF start = NaN \/ end = NaN THEN NaN ELSE start * steps + (end - start) * i

\* currentPos at step i, in units of 1/steps
InterpPosition(start, end, i) ==
  [k \in 1..3 |-> Lerp(start[k], end[k], i)]

\* currentJoints at step i, in units of 1/steps; startJoints.map reads
\* endJoints[index], undefined beyond the end vector
InterpJoints(start, end, i) ==
  [k \in 1..Len(start) |-> IF k > Len(end) THEN NaN ELSE Lerp(start[k], end[k], i)]

\* as SimulateStep, but the step is counted without its update being emitted
SimulateStep_silent(m, a, i) ==
  [m EXCEPT !.active = (@ \ {a}) \cup {[a EXCEPT !.i = i]}]

\* one iteration of the loop of simulateMovement / simulateJointMovement:
\* emit the interpolated value of step i, then wait for the timer
SimulateStep(m, a, i) ==
  LET name == IF a.type = "moveTo" THEN "positionUpdate" ELSE "jointsUpdate"
      data == IF a.type = "moveTo" THEN InterpPosition(a.start, a.target, i)
                                   ELSE InterpJoints(a.start, a.target, i)
      m1   == emit(m, name, a.id, i, data)
  IN [m1 EXCEPT !.active = (@ \ {a}) \cup {[a EXCEPT !.i = i]}]

\* as ExecuteCatch, but the handler also puts the arm back to its initial
\* joint angles
ExecuteCatch_resetsJoints(m, command, error) ==
  LET m1 == [m EXCEPT !.state.lastError = error, !.state.joints = initJointAngles]
      m2 == emit(m1, "error", command.id, 0, << >>)
  IN [m2 EXCEPT !.requests[command.id].status = "rejected",
                !.requests[command.id].error = error]

\* the catch branch of executeMove
ExecuteCatch(m, command, error) ==
  LET m1 == [m EXCEPT !.state.lastError = error]
      m2 == emit(m1, "error", command.id, 0, << >>)
  IN [m2 EXCEPT !.requests[command.id].status = "rejected",
                !.requests[command.id].error = error]

\* executeMove up to its first await: calculateMoveTime cannot throw;
\* calculateJointMoveTime calls startJoints.map and throws a TypeError when
\* this.state.joints is null
ExecuteStart(m, command) ==
  IF command.type = "moveTo"
  THEN SimulateStep(m, [id |-> command.id, type |-> command.type,
                        target |-> command.target, home |-> command.home,
                        start |-> PosSeq(m.state.position), i |-> 0], 1)
  ELSE IF m.state.joints = NULL
       THEN ExecuteCatch(m, command, "TypeError")
       ELSE SimulateStep(m, [id |-> command.id, type |-> command.type,
                             target |-> command.target, home |-> command.home,
                             start |-> m.state.joints, i |-> 0], 1)

Suspended(m, id) == \E a \in m.active : a.id = id

\* as ProcessLoop, but an error thrown by a request ends the loop, as if
\* executeMove rethrew it
ProcessLoop_abortOnError(m) ==
  IF m.moveQueue = << >>
  THEN [m EXCEPT !.isProcessingQueue = FALSE, !.state.isMoving = FALSE]
  ELSE LET command == Head(m.moveQueue)
           m1 == [m EXCEPT !.moveQueue = Tail(@), !.began = Append(@, command.id)]
           m2 == ExecuteStart(m1, command)
       IN IF Suspended(m2, command.id) THEN m2
          ELSE [m2 EXCEPT !.isProcessingQueue = FALSE, !.state.isMoving = FALSE]

\* the while loop and the finally block of processQueue
RECURSIVE ProcessLoop(_)
ProcessLoop(m) ==
  IF m.moveQueue = << >>
  THEN [m EXCEPT !.isProcessingQueue = FALSE, !.state.isMoving = FALSE]
  ELSE LET command == Head(m.moveQueue)
           m1 == [m EXCEPT !.moveQueue = Tail(@), !.began = Append(@, command.id)]
           m2 == ExecuteStart(m1, command)
       IN IF Suspended(m2, command.id) THEN m2 ELSE ProcessLoop(m2)

processQueue(m) ==
  IF m.isProcessingQueue \/ m.moveQueue = << >>
  THEN m
  ELSE ProcessLoop([m EXCEPT !.isProcessingQueue = TRUE, !.state.isMoving = TRUE])

\* as ExecuteFinish, but the finished command is pushed onto the queue again
ExecuteFinish_requeue(m, a) ==
  LET newPose == calculateForwardKinematics(a.target)
      m1 == IF a.type = "moveTo"
            THEN [m EXCEPT !.state.position = Pos(a.target),
                           !.state.joints = calculateInverseKinematics(Pos(a.target))]
            ELSE [m EXCEPT !.state.joints = a.target,
                           !.state.position = [x |-> newPose.x, y |-> newPose.y, z |-> newPose.z],
                           !.state.orientation = [rx |-> newPose.rx, ry |-> newPose.ry, rz |-> newPose.rz]]
      m2 == emit(m1, "positionChanged", a.id, 0, << >>)
  IN [m2 EXCEPT !.result = "resolved", !.active = @ \ {a},
                !.moveQueue = Append(@, [id |-> a.id, type |-> a.type,
                                         target |-> a.target, home |-> a.home]),
                !.requests[a.id].status = "resolved",
                !.requests[a.id].value = "this.state",
                !.requests[a.id].returned = IF a.home THEN "none" ELSE "this.state",
                !.resolvedAt = @ @@ (a.id :> m1.state)]

\* as ExecuteFinish, but only joints is written: position and orientation
\* are left as they were
ExecuteFinish_keepsPose(m, a) ==
  LET m1 == IF a.type = "moveTo"
            THEN [m EXCEPT !.state.joints = calculateInverseKinematics(Pos(a.target))]
            ELSE [m EXCEPT !.state.joints = a.target]
      m2 == emit(m1, "positionChanged", a.id, 0, << >>)
  IN [m2 EXCEPT !.result = "resolved", !.active = @ \ {a},
                !.requests[a.id].status = "resolved",
                !.requests[a.id].value = "this.state",
                !.requests[a.id].returned = IF a.home THEN "none" ELSE "this.state",
                !.resolvedAt = @ @@ (a.id :> m1.state)]

\* executeMove after its step loop has ended: the state update, the
\* positionChanged event and resolve(this.state)
ExecuteFinish(m, a) ==
  LET newPose == calculateForwardKinematics(a.target)
      m1 == IF a.type = "moveTo"
            THEN [m EXCEPT !.state.position = Pos(a.target),
                           !.state.joints = calculateInverseKinematics(Pos(a.target))]
            ELSE [m EXCEPT !.state.joints = a.target,
                           !.state.position = [x |-> newPose.x, y |-> newPose.y, z |-> newPose.z],
                           !.state.orientation = [rx |-> newPose.rx, ry |-> newPose.ry, rz |-> newPose.rz]]
      m2 == emit(m1, "positionChanged", a.id, 0, << >>)
  IN [m2 EXCEPT !.result = "resolved", !.active = @ \ {a},
                !.requests[a.id].status = "resolved",
                !.requests[a.id].value = "this.state",
                !.requests[a.id].returned = IF a.home THEN "none" ELSE "this.state",
                !.resolvedAt = @ @@ (a.id :> m1.state)]

\* home() after its await: runs after the continuation of processQueue; the
\* function ends without a return statement, so its promise is resolved with
\* undefined
HomeContinuation(m, a) ==
  IF a.home
  THEN [emit([m EXCEPT !.state.isHomed = TRUE], "homed", a.id, 0, << >>)
          EXCEPT !.requests[a.id].returned = "undefined"]
  ELSE m

\* the body of the promise executor of moveTo / moveJoints
Submit(m, command) ==
  processQueue([m EXCEPT !.moveQueue = Append(@, [id |-> command.id, type |-> command.type,
                                                  target |-> command.target, home |-> command.home]),
                         !.requests[command.id] = [type |-> command.type, target |-> command.target,
                                                   home |-> command.home, status |-> "pending",
                                                   error |-> "none", value |-> "none",
                                                   follows |-> m.lastCall, returned |-> "none"],
                         !.result = "accepted"])

\* the throw before the promise is made: the call ends rejected
Reject(m, error) == [m EXCEPT !.result = error]

moveTo(m, id, target) ==
  IF ~validatePosition(Pos(target))
  THEN Reject(m, "OutOfWorkspace")
  ELSE Submit(m, [id |-> id, type |-> "moveTo", target |-> target, home |-> FALSE])

moveJoints(m, id, targetJoints, home) ==
  IF ~validateJoints(targetJoints)
  THEN Reject(m, "JointLimits")
  ELSE Submit(m, [id |-> id, type |-> "moveJoints", target |-> targetJoints, home |-> home])

\* as emergencyStop, but the queue is left as it is
emergencyStop_keepsQueue(m) ==
  emit([m EXCEPT !.isProcessingQueue = FALSE,
                 !.state.isMoving = FALSE],
       "emergencyStop", 0, 0, << >>)

emergencyStop(m) ==
  emit([m EXCEPT !.moveQueue = << >>,
                 !.isProcessingQueue = FALSE,
                 !.state.isMoving = FALSE],
       "emergencyStop", 0, 0, << >>)

(***************************************************************************)
(* Actions: one macrotask each                                             *)
(***************************************************************************)
Commit(m, op, id, target) ==
  \E r \in {m} :
     /\ state' = r.state
     /\ moveQueue' = r.moveQueue
     /\ isProcessingQueue' = r.isProcessingQueue
     /\ active' = r.active
     /\ requests' = r.requests
     /\ resolvedAt' = r.resolvedAt
     /\ nextId' = IF r.result = "accepted" THEN nextId + 1 ELSE nextId
     /\ lastCall' = IF r.result = "accepted" THEN id
                    ELSE IF op = "emergencyStop" THEN 0 ELSE lastCall
     /\ event' = [op |-> op, id |-> IF op \in {"moveTo", "moveJoints", "home"} /\ r.result # "accepted"
                                    THEN 0 ELSE id,
                  target |-> target, result |-> r.result,
                  emitted |-> r.emitted, began |-> r.began]

MoveTo ==
  /\ Calls < MaxCalls
  /\ \E target \in Targets : Commit(moveTo(Machine, nextId, target), "moveTo", nextId, target)
  /\ UNCHANGED << stopped, stops, gripperVars, componentVars >>

MoveJoints ==
  /\ Calls < MaxCalls
  /\ \E targetJoints \in JointTargets :
        Commit(moveJoints(Machine, nextId, targetJoints, FALSE), "moveJoints", nextId, targetJoints)
  /\ UNCHANGED << stopped, stops, gripperVars, componentVars >>

Home ==
  /\ Calls < MaxCalls
  /\ Commit(moveJoints(Machine, nextId, homeJointAngles, TRUE), "home", nextId, homeJointAngles)
  /\ UNCHANGED << stopped, stops, gripperVars, componentVars >>

EmergencyStop ==
  /\ Calls < MaxCalls
  /\ stops' = stops + 1
  /\ Commit(emergencyStop(Machine), "emergencyStop", 0, << >>)
  /\ stopped' = stopped \cup {a.id : a \in active}
  /\ UNCHANGED << gripperVars, componentVars >>

\* a step timer fires inside the loop: the next step is emitted
StepTimer ==
  /\ \E a \in active :
        /\ a.i < steps
        /\ Commit(SimulateStep(Machine, a, a.i + 1), "step", a.id, << >>)
  /\ UNCHANGED << stopped, stops, gripperVars, componentVars >>

\* the timer of the last step fires: the move finishes, processQueue goes on
\* with the queue and a home() waiting for the move continues
FinishTimer ==
  /\ \E a \in active :
        /\ a.i = steps
        /\ Commit(HomeContinuation(ProcessLoop(ExecuteFinish(Machine, a)), a), "finish", a.id, << >>)
  /\ UNCHANGED << stopped, stops, gripperVars, componentVars >>

(***************************************************************************)
(* Gripper and getState                                                    *)
(***************************************************************************)
\* setGripper positions: fully open, the isOpen threshold, fully closed,
\* above the range and below it
GripperPositions == { 0, 50, 100, 150, -10 }

\* the default force
Forces == { 50 }

\* as InvalidGripperPosition, but only the lower end of the range is checked
InvalidGripperPosition_noMax(position) == position < 0

\* the test at the head of setGripper
InvalidGripperPosition(position) == position < 0 \/ position > 100

\* as gripperTimeout, but isOpen is left as it was
gripperTimeout_keepsIsOpen(gripper, position, force) ==
  [gripper EXCEPT !.position = position, !.force = force]

\* the writes of the timer callback of setGripper into this.state.gripper
gripperTimeout(gripper, position, force) ==
  [gripper EXCEPT !.position = position, !.isOpen = position < 50, !.force = force]

\* setGripper(position, force): throws, or makes the promise and its timer
SetGripper ==
  /\ Calls < MaxCalls
  /\ \E position \in GripperPositions, force \in Forces :
        IF InvalidGripperPosition(position)
        THEN /\ event' = [op |-> "setGripper", id |-> 0, target |-> << position, force >>,
                          result |-> "InvalidGripperPosition",
                          emitted |-> << >>, began |-> << >>]
             /\ UNCHANGED << state, gripperVars >>
        ELSE /\ gripperPromises' = Append(gripperPromises,
                                          [position |-> position, force |-> force,
                                           status |-> "pending", value |-> "none",
                                           resolvedAt |-> "none"])
             /\ gripperTimers' = Append(gripperTimers,
                                        [id |-> Len(gripperPromises) + 1,
                                         position |-> position, force |-> force])
             /\ event' = [op |-> "setGripper", id |-> Len(gripperPromises) + 1,
                          target |-> << position, force >>, result |-> "accepted",
                          emitted |-> << >>, began |-> << >>]
             /\ UNCHANGED << state, snapshots >>
  /\ UNCHANGED << moveVars, componentVars >>

\* the oldest 200 ms timer fires: the gripper object is written in place,
\* gripperChanged is emitted and the promise is resolved with the gripper
\* object itself
GripperTimer ==
  /\ gripperTimers # << >>
  /\ LET t == Head(gripperTimers)
         g == gripperTimeout(state.gripper, t.position, t.force)
     IN /\ state' = [state EXCEPT !.gripper = g]
        /\ gripperTimers' = Tail(gripperTimers)
        /\ gripperPromises' = [gripperPromises EXCEPT ![t.id].status = "resolved",
                                                      ![t.id].value = "this.state.gripper",
                                                      ![t.id].resolvedAt = g]
        /\ event' = [op |-> "gripperTimer", id |-> t.id, target |-> << >>,
                     result |-> "resolved",
                     emitted |-> << [name |-> "gripperChanged", id |-> t.id,
                                     i |-> 0, data |-> << >>] >>,
                     began |-> << >>]
  /\ UNCHANGED << snapshots, moveVars, componentVars >>

\* getState(): { ...this.state } copies the fields of RobotState into a new
\* object. isMoving, isHomed and lastError are copied by value; joints,
\* position and orientation are references to objects that executeMove
\* replaces and never writes into, so the copy keeps their values; gripper is
\* a reference to the one gripper object, which setGripper writes in place
GetState ==
  /\ Calls < MaxCalls
  /\ snapshots' = Append(snapshots, [state EXCEPT !.gripper = "this.state.gripper"])
  /\ event' = [op |-> "getState", id |-> 0, target |-> << >>, result |-> "returned",
               emitted |-> << >>, began |-> << >>]
  /\ UNCHANGED << state, gripperTimers, gripperPromises, moveVars, componentVars >>

Next ==
  \/ MoveTo
  \/ MoveJoints
  \/ Home
  \/ EmergencyStop
  \/ StepTimer
  \/ FinishTimer

Spec == Init /\ [][Next]_vars

\* the robot with its gripper and getState
GripperNext ==
  \/ MoveTo
  \/ MoveJoints
  \/ Home
  \/ EmergencyStop
  \/ StepTimer
  \/ FinishTimer
  \/ SetGripper
  \/ GripperTimer
  \/ GetState

GripperSpec == Init /\ [][GripperNext]_vars

\* setGripper interleaved with joint moves and home; a pending timer of
\* setGripper fires eventually, as the event loop runs every timer that is due
GripperMoveNext ==
  \/ MoveJoints
  \/ Home
  \/ StepTimer
  \/ FinishTimer
  \/ SetGripper
  \/ GripperTimer

GripperMoveSpec == Init /\ [][GripperMoveNext]_vars /\ WF_vars(GripperTimer)

(***************************************************************************)
(* The robot after an emergencyStop that was called during its first move  *)
(***************************************************************************)
\* the machine of a new RobotSimulator
NewMachine ==
  [state |-> initialState, moveQueue |-> << >>, isProcessingQueue |-> FALSE,
   active |-> {}, requests |-> [id \in Ids |-> NoRequest],
   resolvedAt |-> << >>, lastCall |-> 0,
   result |-> "none", emitted |-> << >>, began |-> << >>]

\* the steps the first move has emitted when emergencyStop is called
StoppedAtSteps == { 10 }

\* m after the step timers of its one executing move have fired up to step k
RECURSIVE StepsTaken(_, _)
StepsTaken(m, k) ==
  LET a == CHOOSE x \in m.active : TRUE
  IN IF a.i >= k THEN m ELSE StepsTaken(SimulateStep(m, a, a.i + 1), k)

\* new RobotSimulator(); moveTo(target); k - 1 step timers; emergencyStop().
\* stops counts the emergencyStop calls made after this state
StoppedInit ==
  \E target \in { t \in Targets : validatePosition(Pos(t)) }, k \in StoppedAtSteps :
     \E m \in { emergencyStop([StepsTaken(moveTo(NewMachine, 1, target), k)
                                 EXCEPT !.result = "none", !.emitted = << >>,
                                        !.began = << >>]) } :
        /\ ComponentInit
        /\ state = m.state
        /\ moveQueue = m.moveQueue
        /\ isProcessingQueue = m.isProcessingQueue
        /\ active = m.active
        /\ requests = m.requests
        /\ resolvedAt = m.resolvedAt
        /\ nextId = 2
        /\ stopped = {1}
        /\ stops = 0
        /\ lastCall = 0
        /\ gripperTimers = << >>
        /\ gripperPromises = << >>
        /\ snapshots = << >>
        /\ event = [op |-> "emergencyStop", id |-> 0, target |-> << >>,
                    result |-> m.result, emitted |-> m.emitted, began |-> m.began]

StoppedSpec == StoppedInit /\ [][Next]_vars

(***************************************************************************)
(* RobotVisualizer with its joints and its Kinematics                      *)
(***************************************************************************)
simulatorVars == << state, event, gripperVars, moveVars >>
outsideVisualizer == << simulatorVars, coordinateVars, driverVars, kinematicsVars >>

\* targets of moveToPosition and inverseKinematics: the end-effector
\* positions of two poses, and a point far outside the arm's reach
KinematicsTargets == { << 160, -65, 5 >>, << 65, 160, 5 >>, << 1000, 0, 0 >> }
\* angles given to rotateJ1, degrees; the second one is outside j1's range
RotateAngles == { 90, 270 }
RotatedJoints == { 1 }
\* initial guesses of a direct call: none, too short, NaN angles
InitialGuesses == { NULL, << 0, 0, 0 >>, NaNVector }

\* RevoluteJoint.rotate: Math.max(range[0], Math.min(range[1], angle))
rotate(angle, range) ==
  IF angle = NaN THEN NaN
  ELSE IF angle > range[2] THEN range[2]
  ELSE IF angle < range[1] THEN range[1]
  ELSE angle

\* startAngle + (targetAngle - startAngle) * easeProgress at progress 0 and 1
AnimatedAngle(startAngle, targetAngle, easeProgress) ==
  IF startAngle = NaN \/ targetAngle = NaN THEN NaN
  ELSE startAngle + (targetAngle - startAngle) * easeProgress

\* setAllJoints(angles, duration > 0): animateJointTo on every joint; animateTo
\* runs its first frame at once (progress 0) and leaves the rest to
\* requestAnimationFrame
setAllJoints(v, angles) ==
  LET first(i) == rotate(AnimatedAngle(v.angles[i], angles[i], 0), jointRanges[i])
      animation(i) == [startAngle |-> v.angles[i], targetAngle |-> angles[i]]
  IN [v EXCEPT
        !.angles = << first(1), first(2), first(3), first(4), first(5), first(6) >>,
        !.animating = << animation(1), animation(2), animation(3),
                         animation(4), animation(5), animation(6) >>]

\* rotateJ1
VizRotateJoint ==
  /\ \E i \in RotatedJoints, angle \in RotateAngles :
       viz' = [viz EXCEPT !.angles[i] = rotate(angle, jointRanges[i])]
  /\ UNCHANGED << ikCall, outsideVisualizer >>

\* moveToHome
VizMoveToHome ==
  /\ viz' = [setAllJoints(viz, << 0, 0, 0, 0, 0, 0 >>) EXCEPT !.toast = "info"]
  /\ UNCHANGED << ikCall, outsideVisualizer >>

\* RobotVisualizer.moveToPosition(targetPosition): the current angles are the
\* initial guess, and whatever inverseKinematics returns goes to setAllJoints;
\* only an exception leads to the error toast
VizMoveToPosition ==
  /\ \E t \in KinematicsTargets :
       LET currentRadians == viz.angles
           r == inverseKinematics(Pos(t), currentRadians)
           targetDegrees == r.value
       IN /\ viz' = IF r.thrown THEN [viz EXCEPT !.toast = "error"]
                    ELSE [setAllJoints(viz, targetDegrees) EXCEPT !.toast = "info"]
          /\ ikCall' = [caller |-> "moveToPosition", target |-> t,
                        initialGuess |-> currentRadians, result |-> r,
                        commanded |-> IF r.thrown THEN << >> ELSE targetDegrees]
  /\ UNCHANGED outsideVisualizer

\* the last frame of the running animations (progress 1)
VizAnimationFrame ==
  /\ viz.animating # << >>
  /\ LET last(i) == rotate(AnimatedAngle(viz.animating[i].startAngle,
                                         viz.animating[i].targetAngle, 1),
                           jointRanges[i])
     IN viz' = [viz EXCEPT
                  !.angles = << last(1), last(2), last(3), last(4), last(5), last(6) >>,
                  !.animating = << >>]
  /\ UNCHANGED << ikCall, outsideVisualizer >>

\* a call of Kinematics.inverseKinematics from outside the visualizer
KinematicsCall ==
  /\ \E t \in KinematicsTargets, g \in InitialGuesses :
       ikCall' = [caller |-> "direct", target |-> t, initialGuess |-> g,
                  result |-> inverseKinematics(Pos(t), g), commanded |-> << >>]
  /\ UNCHANGED << viz, outsideVisualizer >>

VisualizerNext ==
  \/ VizRotateJoint
  \/ VizMoveToHome
  \/ VizMoveToPosition
  \/ VizAnimationFrame
  \/ KinematicsCall

VisualizerSpec == Init /\ [][VisualizerNext]_vars

(***************************************************************************)
(* CoordinateValidator and its Workspace and JointLimits                   *)
(***************************************************************************)
outsideCoordinate == << simulatorVars, visualizerVars, driverVars, kinematicsVars >>

\* the workspace of the repository's tests
testBounds ==
  [x |-> [min |-> -100, max |-> 100],
   y |-> [min |-> -100, max |-> 100],
   z |-> [min |-> 0, max |-> 200]]

\* limits given for the first joint: both nonzero, min 0, max 0
LimitChoices ==
  { [min |-> -90, max |-> 90], [min |-> 0, max |-> 90], [min |-> -90, max |-> 0] }

\* config.jointLimits: none, or limits for two joints
JointLimitConfigs ==
  { << >> } \cup { << l, [min |-> -45, max |-> 45] >> : l \in LimitChoices }

\* positions passed to the workspace and the validator, as << x, y, z >>
CoordPositions == { -150, 95, 150 } \X { 50, 600 } \X { -50, 0, 100 }

\* joint vectors passed to the limits and the validator: two joints, or
\* three with the third beyond the configured limits
CoordJoints ==
  LET two == { -100, -10, 10, 100 } \X { 0, 50 }
  IN two \cup { << j[1], j[2], 500 >> : j \in two }

\* new CoordinateValidator({ workspace, jointLimits })
NewCoordinateValidator ==
  /\ \E custom \in BOOLEAN, limits \in JointLimitConfigs :
       validator' = CoordinateValidator(
                      [workspace |-> IF custom THEN testBounds ELSE << >>,
                       jointLimits |-> limits])
  /\ coordCall' = NoCoordCall
  /\ UNCHANGED outsideCoordinate

\* validator.jointLimits.validateJoints(joints)
CallJointLimitsValidate ==
  /\ \E joints \in CoordJoints :
       coordCall' = [op |-> "JointLimits.validateJoints", input |-> joints,
                     autoCorrect |-> FALSE,
                     result |-> JointLimits_validateJoints(validator.jointLimits, joints),
                     argument |-> joints]
  /\ UNCHANGED << validator, outsideCoordinate >>

\* validator.jointLimits.clampJoints(joints)
CallClampJoints ==
  /\ \E joints \in CoordJoints :
       coordCall' = [op |-> "JointLimits.clampJoints", input |-> joints,
                     autoCorrect |-> FALSE,
                     result |-> clampJoints(validator.jointLimits, joints),
                     argument |-> joints]
  /\ UNCHANGED << validator, outsideCoordinate >>

\* validator.workspace.isPositionValid(position)
CallIsPositionValid ==
  /\ \E p \in CoordPositions :
       coordCall' = [op |-> "Workspace.isPositionValid", input |-> p,
                     autoCorrect |-> FALSE,
                     result |-> isPositionValid(validator.workspace, Pos(p)),
                     argument |-> p]
  /\ UNCHANGED << validator, outsideCoordinate >>

\* validator.workspace.clampPosition(position)
CallClampPosition ==
  /\ \E p \in CoordPositions :
       coordCall' = [op |-> "Workspace.clampPosition", input |-> p,
                     autoCorrect |-> FALSE,
                     result |-> PosSeq(clampPosition(validator.workspace, Pos(p))),
                     argument |-> p]
  /\ UNCHANGED << validator, outsideCoordinate >>

\* validator.validatePosition(position, { autoCorrect })
CallValidatePosition ==
  /\ \E p \in CoordPositions, autoCorrect \in BOOLEAN :
       coordCall' = [op |-> "CoordinateValidator.validatePosition", input |-> p,
                     autoCorrect |-> autoCorrect,
                     result |-> CoordinateValidator_validatePosition(validator, Pos(p),
                                                                     autoCorrect),
                     argument |-> p]
  /\ UNCHANGED << validator, outsideCoordinate >>

\* validator.validateJoints(joints, { autoCorrect })
CallValidateJoints ==
  /\ \E joints \in CoordJoints, autoCorrect \in BOOLEAN :
       coordCall' = [op |-> "CoordinateValidator.validateJoints", input |-> joints,
                     autoCorrect |-> autoCorrect,
                     result |-> CoordinateValidator_validateJoints(validator, joints,
                                                                   autoCorrect),
                     argument |-> joints]
  /\ UNCHANGED << validator, outsideCoordinate >>

CoordinateNext ==
  \/ NewCoordinateValidator
  \/ CallJointLimitsValidate
  \/ CallClampJoints
  \/ CallIsPositionValid
  \/ CallClampPosition
  \/ CallValidatePosition
  \/ CallValidateJoints

CoordinateSpec == Init /\ [][CoordinateNext]_vars

\* coordinates of path end points: the doubles nearest to -499.7, and 0,
\* 100, 500 and 600
PathCoordinates ==
  { << -130993357, 26843546 >>, Double(0), Double(100), Double(500), Double(600) }

PathPositions == PathCoordinates \X { Double(0) } \X { Double(0), Double(100) }

\* the steps arguments for which i / steps is 0, 1/2 or 1
PathSteps == { 1, 2 }

\* validator.workspace.isPathValid(startPos, endPos, steps)
CallIsPathValid ==
  /\ \E startPos \in PathPositions, endPos \in PathPositions, n \in PathSteps :
       coordCall' = [op |-> "Workspace.isPathValid",
                     input |-> << startPos, endPos, n >>,
                     autoCorrect |-> FALSE,
                     result |-> isPathValid(validator.workspace, startPos, endPos, n),
                     argument |-> << startPos, endPos, n >>]
  /\ UNCHANGED << validator, outsideCoordinate >>

PathNext == NewCoordinateValidator \/ CallIsPathValid

PathSpec == Init /\ [][PathNext]_vars

(***************************************************************************)
(* The default RobotSimulator on the inputs of the repository's tests      *)
(***************************************************************************)
\* positions the tests pass to validatePosition, and one beyond every bound
TestPositions ==
  { << 0, 0, 200 >>, << 1000, 0, 200 >>, << 0, 0, -100 >>, << 2000, 0, 2000 >> }

\* joint vectors the tests pass to validateJoints, and one beyond the elbow's
\* limit
TestJoints ==
  { << 0, 0, 0, 0, 0, 0 >>, << 90, 45, -45, 90, -90, 180 >>,
    << 200, 0, 0, 0, 0, 0 >>, << 0, 100, 0, 0, 0, 0 >>, << 0, 0, 170, 0, 0, 0 >> }

\* moveTo targets: the invalid position of the tests and a position the
\* robot reaches
TestTargets == { << 1000, 1000, 1000 >>, << 0, 0, 220 >> }

\* robot.validatePosition(position): the state is left alone
QueryValidatePosition ==
  /\ \E position \in TestPositions :
       event' = [op |-> "validatePosition", id |-> 0, target |-> position,
                 result |-> IF validatePosition(Pos(position)) THEN "true" ELSE "false",
                 emitted |-> << >>, began |-> << >>]
  /\ UNCHANGED << state, gripperVars, moveVars, componentVars >>

\* robot.validateJoints(joints): the state is left alone
QueryValidateJoints ==
  /\ \E joints \in TestJoints :
       event' = [op |-> "validateJoints", id |-> 0, target |-> joints,
                 result |-> IF validateJoints(joints) THEN "true" ELSE "false",
                 emitted |-> << >>, began |-> << >>]
  /\ UNCHANGED << state, gripperVars, moveVars, componentVars >>

\* robot.moveTo(target) on the targets of the tests
MoveToTestTarget ==
  /\ Calls < MaxCalls
  /\ \E target \in TestTargets :
       Commit(moveTo(Machine, nextId, target), "moveTo", nextId, target)
  /\ UNCHANGED << stopped, stops, gripperVars, componentVars >>

TestNext ==
  \/ QueryValidatePosition
  \/ QueryValidateJoints
  \/ MoveToTestTarget
  \/ StepTimer
  \/ FinishTimer

TestSpec == Init /\ [][TestNext]_vars

(***************************************************************************)
(* MockRobotDriver around the simulator, and RobotDriverFactory            *)
(***************************************************************************)
\* type strings given to createDriver
DriverTypes == { "mock", "simulation", "UR", "universal", "kuka", "abb", "unknown" }

\* type.toLowerCase() on DriverTypes
toLowerCase(type) == IF type = "UR" THEN "ur" ELSE type

\* RobotDriverFactory.createDriver(type): the class of the object returned,
\* or "throw"
createDriver(type) ==
  IF toLowerCase(type) \in { "mock", "simulation", "ur", "universal", "kuka", "abb" }
  THEN "MockRobotDriver"
  ELSE "throw"

\* moveToPosition targets: reachable, and outside the workspace
DriverTargets == { << 0, 0, 220 >>, << 1300, 0, 200 >> }

\* getCurrentPosition(): validateConnection, then the position and
\* orientation of simulator.getState()
getCurrentPosition(d, s) ==
  IF ~d.isConnected THEN << >>
  ELSE << s.position.x, s.position.y, s.position.z,
          s.orientation.rx, s.orientation.ry, s.orientation.rz >>

\* RobotDriverFactory.createDriver(type); the driver it returns is another
\* object than the one followed here
CreateDriver ==
  /\ \E type \in DriverTypes :
       driverCall' = [NoDriverCall EXCEPT !.op = "createDriver", !.type = type,
                                          !.result = createDriver(type)]
  /\ UNCHANGED << driver, simulatorVars, visualizerVars, coordinateVars, kinematicsVars >>

\* driver.connect(): a promise and a timer of 1 to 3 seconds
DriverConnect ==
  /\ Calls < MaxCalls
  /\ driver' = [driver EXCEPT !.pending = driver.pending + 1,
                              !.connects = driver.connects + 1]
  /\ driverCall' = [NoDriverCall EXCEPT !.op = "connect", !.connected = driver.isConnected,
                                        !.result = "pending"]
  /\ UNCHANGED << simulatorVars, visualizerVars, coordinateVars, kinematicsVars >>

\* the timer of a connect() call fires: Math.random() < 0.95 connects and
\* resolves with true, otherwise the promise is rejected; either way an
\* event is emitted on the simulator.
DriverConnectTimer ==
  /\ driver.pending > 0
  /\ \E success \in BOOLEAN :
       /\ driver' = [driver EXCEPT !.pending = driver.pending - 1,
                                   !.isConnected = IF success THEN TRUE ELSE driver.isConnected]
       /\ driverCall' = [NoDriverCall EXCEPT
                           !.op = "connectSettled", !.connected = driver.isConnected,
                           !.random = IF success THEN "below" ELSE "above",
                           !.result = IF success THEN "true" ELSE "rejected",
                           !.emitted = IF success THEN << "connected" >>
                                       ELSE << "connectionError" >>]
  /\ UNCHANGED << simulatorVars, visualizerVars, coordinateVars, kinematicsVars >>

\* driver.moveToPosition(x, y, z): validateConnection, the 2 % movement
\* error, then simulator.moveTo(target)
DriverMoveToPosition ==
  /\ Calls < MaxCalls
  /\ \E target \in DriverTargets, failure \in BOOLEAN :
       IF ~driver.isConnected \/ failure
       THEN /\ driverCall' = [NoDriverCall EXCEPT
                                !.op = "moveToPosition", !.target = target,
                                !.connected = driver.isConnected,
                                !.random = IF ~driver.isConnected THEN "none"
                                           ELSE "below",
                                !.result = IF ~driver.isConnected THEN "NotConnected"
                                           ELSE "MovementFailed"]
            /\ UNCHANGED << state, event, moveQueue, isProcessingQueue, active,
                            requests, resolvedAt, nextId, lastCall >>
       ELSE LET m == moveTo(Machine, nextId, target)
            IN /\ Commit(m, "moveTo", nextId, target)
               /\ driverCall' = [NoDriverCall EXCEPT
                                   !.op = "moveToPosition", !.target = target,
                                   !.connected = TRUE, !.random = "above",
                                   !.result = m.result]
  /\ UNCHANGED << driver, stopped, stops, gripperVars, visualizerVars, coordinateVars, kinematicsVars >>

\* driver.getCurrentPosition()
DriverGetCurrentPosition ==
  /\ driverCall' = [NoDriverCall EXCEPT
                      !.op = "getCurrentPosition", !.connected = driver.isConnected,
                      !.result = IF driver.isConnected THEN "returned" ELSE "NotConnected",
                      !.position = getCurrentPosition(driver, state)]
  /\ UNCHANGED << driver, simulatorVars, visualizerVars, coordinateVars, kinematicsVars >>

DriverNext ==
  \/ CreateDriver
  \/ DriverConnect
  \/ DriverConnectTimer
  \/ DriverMoveToPosition
  \/ DriverGetCurrentPosition
  \/ StepTimer
  \/ FinishTimer

DriverSpec == Init /\ [][DriverNext]_vars

\* validateConnection(): TRUE where it returns, FALSE where it throws
\* 'Robot not connected'
validateConnection_always(d) == TRUE

validateConnection(d) == d.isConnected

\* moveJoints targets of the driver: within limits
DriverJointTargets == { << 90, 0, 0, 0, 0, 0 >> }

\* what a driver call that throws before it reaches the simulator leaves
DriverThrows(op, target) ==
  /\ driverCall' = [NoDriverCall EXCEPT
                      !.op = op, !.target = target,
                      !.connected = driver.isConnected,
                      !.random = IF ~validateConnection(driver) THEN "none" ELSE "below",
                      !.result = IF ~validateConnection(driver) THEN "NotConnected"
                                 ELSE "Failed"]
  /\ UNCHANGED << state, event, moveQueue, isProcessingQueue, active,
                  requests, resolvedAt, nextId, lastCall >>

\* what a driver call that reaches the simulator records
DriverReturns(op, target, result) ==
  driverCall' = [NoDriverCall EXCEPT
                   !.op = op, !.target = target, !.connected = driver.isConnected,
                   !.random = "above", !.result = result]

\* driver.disconnect()
DriverDisconnect ==
  /\ driver' = [driver EXCEPT !.isConnected = FALSE]
  /\ driverCall' = [NoDriverCall EXCEPT
                      !.op = "disconnect", !.connected = driver.isConnected,
                      !.result = "true", !.emitted = << "disconnected" >>]
  /\ UNCHANGED << simulatorVars, visualizerVars, coordinateVars, kinematicsVars >>

\* driver.moveJoints(j1, .., j6): validateConnection, the 1 % joint error,
\* then simulator.moveJoints(targetJoints)
DriverMoveJoints ==
  /\ Calls < MaxCalls
  /\ \E target \in DriverJointTargets, failure \in BOOLEAN :
       IF ~validateConnection(driver) \/ failure
       THEN DriverThrows("moveJoints", target)
       ELSE LET m == moveJoints(Machine, nextId, target, FALSE)
            IN /\ Commit(m, "moveJoints", nextId, target)
               /\ DriverReturns("moveJoints", target, m.result)
  /\ UNCHANGED << driver, stopped, stops, gripperVars, visualizerVars, coordinateVars, kinematicsVars >>

\* driver.homeRobot(): validateConnection, the 1 % homing error, then
\* simulator.home()
DriverHomeRobot ==
  /\ Calls < MaxCalls
  /\ \E failure \in BOOLEAN :
       IF ~validateConnection(driver) \/ failure
       THEN DriverThrows("homeRobot", << >>)
       ELSE LET m == moveJoints(Machine, nextId, homeJointAngles, TRUE)
            IN /\ Commit(m, "home", nextId, homeJointAngles)
               /\ DriverReturns("homeRobot", << >>, m.result)
  /\ UNCHANGED << driver, stopped, stops, gripperVars, visualizerVars, coordinateVars, kinematicsVars >>

\* the gripper calls of the driver with their arguments <<position, force>>:
\* openGripper(force = 30) and closeGripper(force = 50) call
\* setGripperPosition(0, force) and setGripperPosition(100, force)
DriverGripperCalls ==
  { << "setGripperPosition", 50, 50 >>, << "setGripperPosition", 150, 50 >>,
    << "openGripper", 0, 30 >>, << "closeGripper", 100, 50 >> }

\* driver.setGripperPosition(position, force), openGripper, closeGripper:
\* validateConnection, the 0.5 % gripper error, then
\* simulator.setGripper(position, force)
DriverSetGripperPosition ==
  /\ Calls < MaxCalls
  /\ \E call \in DriverGripperCalls, failure \in BOOLEAN :
       LET op == call[1]
           position == call[2]
           force == call[3]
       IN IF ~validateConnection(driver) \/ failure
          THEN /\ DriverThrows(op, << position, force >>)
               /\ UNCHANGED gripperVars
          ELSE IF InvalidGripperPosition(position)
          THEN /\ event' = [op |-> "setGripper", id |-> 0, target |-> << position, force >>,
                            result |-> "InvalidGripperPosition",
                            emitted |-> << >>, began |-> << >>]
               /\ DriverReturns(op, << position, force >>, "InvalidGripperPosition")
               /\ UNCHANGED << state, gripperVars, moveQueue, isProcessingQueue, active,
                               requests, resolvedAt, nextId, lastCall >>
          ELSE /\ gripperPromises' = Append(gripperPromises,
                                            [position |-> position, force |-> force,
                                             status |-> "pending", value |-> "none",
                                             resolvedAt |-> "none"])
               /\ gripperTimers' = Append(gripperTimers,
                                          [id |-> Len(gripperPromises) + 1,
                                           position |-> position, force |-> force])
               /\ event' = [op |-> "setGripper", id |-> Len(gripperPromises) + 1,
                            target |-> << position, force >>, result |-> "accepted",
                            emitted |-> << >>, began |-> << >>]
               /\ DriverReturns(op, << position, force >>, "accepted")
               /\ UNCHANGED << state, snapshots, moveQueue, isProcessingQueue, active,
                               requests, resolvedAt, nextId, lastCall >>
  /\ UNCHANGED << driver, stopped, stops, visualizerVars, coordinateVars, kinematicsVars >>

\* driver.getCurrentJoints(): validateConnection, then [...state.joints],
\* which throws a TypeError when joints is null
DriverGetCurrentJoints ==
  /\ driverCall' = [NoDriverCall EXCEPT
                      !.op = "getCurrentJoints", !.connected = driver.isConnected,
                      !.result = IF ~validateConnection(driver) THEN "NotConnected"
                                 ELSE IF state.joints = NULL THEN "TypeError"
                                 ELSE "returned",
                      !.position = IF ~validateConnection(driver) \/ state.joints = NULL
                                   THEN << >> ELSE state.joints]
  /\ UNCHANGED << driver, simulatorVars, visualizerVars, coordinateVars, kinematicsVars >>

\* driver.getGripperState() and driver.getRobotStatus(): validateConnection,
\* then a copy of fields of simulator.getState()
DriverGetGripperState ==
  /\ driverCall' = [NoDriverCall EXCEPT
                      !.op = "getGripperState", !.connected = driver.isConnected,
                      !.result = IF validateConnection(driver) THEN "returned"
                                 ELSE "NotConnected"]
  /\ UNCHANGED << driver, simulatorVars, visualizerVars, coordinateVars, kinematicsVars >>

DriverGetRobotStatus ==
  /\ driverCall' = [NoDriverCall EXCEPT
                      !.op = "getRobotStatus", !.connected = driver.isConnected,
                      !.result = IF validateConnection(driver) THEN "returned"
                                 ELSE "NotConnected"]
  /\ UNCHANGED << driver, simulatorVars, visualizerVars, coordinateVars, kinematicsVars >>

\* driver.emergencyStop(): simulator.emergencyStop(), no validateConnection
DriverEmergencyStop ==
  /\ Calls < MaxCalls
  /\ stops' = stops + 1
  /\ Commit(emergencyStop(Machine), "emergencyStop", 0, << >>)
  /\ stopped' = stopped \cup {a.id : a \in active}
  /\ driverCall' = [NoDriverCall EXCEPT
                      !.op = "emergencyStop", !.connected = driver.isConnected,
                      !.result = "true"]
  /\ UNCHANGED << driver, gripperVars, visualizerVars, coordinateVars, kinematicsVars >>

\* setRobotSpeed percentages: in range, below and above the range
SpeedPercentages == { 25, 50, 100, 0, 150 }

\* the new simulator.config.maxSpeed of setRobotSpeed(speedPercentage)
maxSpeedAfter(maxSpeed, speedPercentage) == (maxSpeed * speedPercentage) \div 100

\* driver.setRobotSpeed(speedPercentage): the range check, then the write
\* of simulator.config.maxSpeed; no validateConnection
DriverSetRobotSpeed ==
  /\ \E speedPercentage \in SpeedPercentages :
       IF speedPercentage < 1 \/ speedPercentage > 100
       THEN /\ driverCall' = [NoDriverCall EXCEPT
                                !.op = "setRobotSpeed", !.target = << speedPercentage >>,
                                !.connected = driver.isConnected,
                                !.result = "SpeedRange"]
            /\ UNCHANGED driver
       ELSE /\ Calls < MaxCalls
            /\ driver' = [driver EXCEPT
                            !.maxSpeed = maxSpeedAfter(driver.maxSpeed, speedPercentage),
                            !.speedCalls = driver.speedCalls + 1]
            /\ driverCall' = [NoDriverCall EXCEPT
                                !.op = "setRobotSpeed", !.target = << speedPercentage >>,
                                !.connected = driver.isConnected,
                                !.result = "true"]
  /\ UNCHANGED << simulatorVars, visualizerVars, coordinateVars, kinematicsVars >>

\* driver.getRobotConfig(): a copy of simulator.config; position holds its
\* maxSpeed
DriverGetRobotConfig ==
  /\ driverCall' = [NoDriverCall EXCEPT
                      !.op = "getRobotConfig", !.connected = driver.isConnected,
                      !.result = "returned", !.position = << driver.maxSpeed >>]
  /\ UNCHANGED << driver, simulatorVars, visualizerVars, coordinateVars, kinematicsVars >>

\* the driver's speed override, with the connection changing beside it
SpeedNext ==
  \/ DriverSetRobotSpeed
  \/ DriverGetRobotConfig
  \/ DriverConnect
  \/ DriverConnectTimer
  \/ DriverDisconnect

SpeedSpec == Init /\ [][SpeedNext]_vars

\* setupEventForwarding(): the events for which the driver registers a
\* callback on the simulator; the callback calls this.emit(event, data)
forwardedEvents ==
  { "positionChanged", "positionUpdate", "jointsUpdate", "gripperChanged",
    "homed", "emergencyStop", "error" }

\* the calls of driver.emit that a sequence of simulator.emit calls leads
\* to: simulator.emit runs the callbacks registered for the event's name
RECURSIVE driverEmit(_)
driverEmit(names) ==
  IF names = << >> THEN << >>
  ELSE IF Head(names) \in forwardedEvents
       THEN << Head(names) >> \o driverEmit(Tail(names))
       ELSE driverEmit(Tail(names))

\* the driver with every operation that checks the connection, disconnect
\* and emergencyStop
DriverOpsNext ==
  \/ DriverConnect
  \/ DriverConnectTimer
  \/ DriverDisconnect
  \/ DriverMoveToPosition
  \/ DriverMoveJoints
  \/ DriverHomeRobot
  \/ DriverSetGripperPosition
  \/ DriverGetCurrentPosition
  \/ DriverGetCurrentJoints
  \/ DriverGetGripperState
  \/ DriverGetRobotStatus
  \/ DriverEmergencyStop
  \/ StepTimer
  \/ FinishTimer
  \/ GripperTimer

DriverOpsSpec == Init /\ [][DriverOpsNext]_vars


(***************************************************************************)
(* Properties                                                              *)
(***************************************************************************)
(***************************************************************************)
(* Forward kinematics, geometric inverse kinematics and forward kinematics *)
(* again, applied to joint vectors within config.jointLimits               *)
(***************************************************************************)
outsideKinematics == << simulatorVars, visualizerVars, coordinateVars, driverVars >>

RoundTripJoints ==
  {0, 90} \X {0, -90} \X {-90, 0, 90} \X {0, -90} \X {0, 180} \X {0}

ApplyForward ==
  /\ roundTrip.stage = "none"
  /\ \E joints \in RoundTripJoints :
       /\ validateJoints(joints)
       /\ roundTrip' = [NoRoundTrip EXCEPT
                          !.stage = "forward", !.joints = joints,
                          !.position = PosSeq(calculateForwardKinematics(joints))]
  /\ UNCHANGED outsideKinematics

ApplyInverse ==
  /\ roundTrip.stage = "forward"
  /\ roundTrip' = [roundTrip EXCEPT
                     !.stage = "inverse",
                     !.solution = calculateInverseKinematicsMilli(Pos(roundTrip.position))]
  /\ UNCHANGED outsideKinematics

ApplyForwardAgain ==
  /\ roundTrip.stage = "inverse"
  /\ roundTrip.solution # NULL
  /\ roundTrip' = [roundTrip EXCEPT
                     !.stage = "reproduced",
                     !.reproduced = PosSeq(calculateForwardKinematicsMilli(roundTrip.solution))]
  /\ UNCHANGED outsideKinematics

RoundTripNext == ApplyForward \/ ApplyInverse \/ ApplyForwardAgain

RoundTripSpec == Init /\ [][RoundTripNext]_vars

ActiveIds == {a.id : a \in active}
Settled(id) == requests[id].status \in {"resolved", "rejected"}
\* the request has started executeMove
Began(id) == id \in ActiveIds \/ Settled(id)
QueueIds(q) == [k \in 1..Len(q) |-> q[k].id]

\* the value a resolved promise carries: resolve(this.state) passes the
\* RobotState object itself, so reading it reads the current state
Deref(ref) == CASE ref = "this.state" -> state
                [] ref = "this.state.gripper" -> state.gripper

ResolvedValue(id) == Deref(requests[id].value)

\* C1: at most one move request is between the start of its executeMove and
\* the settlement of its promise
C1_AtMostOneExecuting == Cardinality(active) <= 1

\* C2: a move that was interpolating when emergencyStop was called takes no
\* further step: it emits no further update and never finishes (so it never
\* writes joints, position or orientation)
C2_StoppedMoveTakesNoStep ==
  ~(event.op \in {"step", "finish"} /\ event.id \in stopped)

\* C3: for accepted requests A submitted before B, B has not begun executing
\* while A's promise is still pending
C3_StartsAfterEarlierSettled ==
  \A a, b \in Ids : (a < b /\ requests[b].type # "none" /\ Began(b)) => Settled(a)

\* a position with at least one coordinate outside the configured bounds
OutsideWorkspace(t) ==
  \/ t[1] < -1200 \/ t[1] > 1200
  \/ t[2] < -1200 \/ t[2] > 1200
  \/ t[3] < -500  \/ t[3] > 1500

\* C4: a moveTo whose target has a coordinate outside the workspace fails with
\* the out-of-workspace error; the queue, the executing moves, the promises
\* and RobotState are the same after the call as before it
C4_OutOfWorkspaceRejected ==
  [][(event'.op = "moveTo" /\ OutsideWorkspace(event'.target))
       => /\ event'.result = "OutOfWorkspace"
          /\ moveQueue' = moveQueue
          /\ state' = state
          /\ active' = active
          /\ requests' = requests]_vars

\* a rejected out-of-workspace moveTo made while another move is executing
C4_Witness ==
  /\ event.op = "moveTo"
  /\ OutsideWorkspace(event.target)
  /\ event.result = "OutOfWorkspace"
  /\ active # {}

\* a joint vector with an angle outside the configured range of its joint
OutsideJointLimits(j) ==
  \/ (Len(j) >= 1 /\ (j[1] < -360 \/ j[1] > 360))
  \/ (Len(j) >= 2 /\ (j[2] < -360 \/ j[2] > 360))
  \/ (Len(j) >= 3 /\ (j[3] < -165 \/ j[3] > 165))
  \/ (Len(j) >= 4 /\ (j[4] < -360 \/ j[4] > 360))
  \/ (Len(j) >= 5 /\ (j[5] < -360 \/ j[5] > 360))
  \/ (Len(j) >= 6 /\ (j[6] < -360 \/ j[6] > 360))

\* C5: a moveJoints whose target has an angle outside its joint's range fails
\* with the joint-limit error before the request enters the queue; the queue
\* and RobotState are unchanged by the call
C5_JointLimitRejected ==
  [][(event'.op = "moveJoints" /\ OutsideJointLimits(event'.target))
       => /\ event'.result = "JointLimits"
          /\ moveQueue' = moveQueue
          /\ state' = state
          /\ active' = active
          /\ requests' = requests]_vars

\* a rejected moveJoints made while a move is executing and another is queued
C5_Witness ==
  /\ event.op = "moveJoints"
  /\ OutsideJointLimits(event.target)
  /\ event.result = "JointLimits"
  /\ active # {}
  /\ moveQueue # << >>

\* C6: right after emergencyStop the queue is empty, isProcessingQueue is
\* false and isMoving is false
C6_AfterEmergencyStop ==
  event.op = "emergencyStop" =>
     /\ moveQueue = << >>
     /\ isProcessingQueue = FALSE
     /\ state.isMoving = FALSE

\* an emergencyStop made while one move was executing and another request was
\* waiting in the queue (it is still pending and was never started)
C6_Witness ==
  /\ event.op = "emergencyStop"
  /\ active # {}
  /\ \E id \in Ids : requests[id].status = "pending" /\ id \notin ActiveIds

\* C7: a Cartesian move whose target the geometric IK reports unreachable
\* ends rejected with lastError recorded, and joints stays a joint vector
C7_UnreachableFails ==
  \A id \in Ids :
     (/\ requests[id].type = "moveTo"
      /\ Settled(id)
      /\ calculateInverseKinematics(Pos(requests[id].target)) = NULL)
     => /\ requests[id].status = "rejected"
        /\ state.lastError # "null"
        /\ state.joints # NULL

\* C8: in the step in which an executing request throws, its promise is
\* rejected with the error, lastError is the error and an 'error' event is
\* emitted; no queued request is dropped or reordered (the requests begun in
\* the step followed by the remaining queue are the queue as it was, with a
\* request pushed in the step at its end), and while requests remain in the
\* queue the last request begun is executing
C8_ErrorRejectsAndQueueContinues ==
  [][\A id \in Ids :
       (requests[id].status # "rejected" /\ requests'[id].status = "rejected")
       => /\ requests'[id].error = "TypeError"
          /\ state'.lastError = requests'[id].error
          /\ \E k \in 1..Len(event'.emitted) :
                event'.emitted[k].name = "error" /\ event'.emitted[k].id = id
          /\ \E k \in 1..Len(event'.began) : event'.began[k] = id
          /\ event'.began \o QueueIds(moveQueue')
               = QueueIds(moveQueue) \o (IF event'.result = "accepted"
                                          THEN << event'.id >> ELSE << >>)
          /\ (moveQueue' # << >>
               => \E a \in active' : a.id = event'.began[Len(event'.began)])]_vars

\* a step in which one request threw and the request queued behind it began
\* executing
C8_Witness ==
  \E i, j \in 1..Len(event.began) :
     /\ i < j
     /\ requests[event.began[i]].status = "rejected"
     /\ event.began[j] \in ActiveIds

\* C9: position and orientation are the forward-kinematics image of joints
C9_PoseIsForwardKinematicsOfJoints ==
  /\ state.joints # NULL
  /\ LET pose == calculateForwardKinematics(state.joints)
     IN /\ state.position = [x |-> pose.x, y |-> pose.y, z |-> pose.z]
        /\ state.orientation = [rx |-> pose.rx, ry |-> pose.ry, rz |-> pose.rz]

\* C10: the value a move's promise was resolved with keeps the joints and
\* position that held when the move completed
C10_ResolvedValueIsSnapshot ==
  \A id \in DOMAIN resolvedAt :
     /\ ResolvedValue(id).joints = resolvedAt[id].joints
     /\ ResolvedValue(id).position = resolvedAt[id].position

\* what a caller reads from an object getState returned: the copied fields,
\* and the gripper object through the reference the copy holds
ReadSnapshot(s) == [s EXCEPT !.gripper = Deref(@)]

\* C11: getState changes nothing of the robot, and no later operation
\* (moveTo, moveJoints, setGripper, home, emergencyStop or one of their timer
\* steps) changes what any field of an already returned snapshot reads as
C11_SnapshotUnchanged ==
  [][/\ \A k \in 1..Len(snapshots) :
           ReadSnapshot(snapshots[k])' = ReadSnapshot(snapshots[k])
     /\ event'.op = "getState"
          => /\ state' = state
             /\ UNCHANGED << gripperTimers, gripperPromises, moveVars >>]_vars

\* C12: in the step in which a joint move (moveJoints or home) completes and
\* its promise is resolved, joints is the commanded target and position and
\* orientation are the forward kinematics of that target
C12_JointMoveEndsAtTarget ==
  (event.op = "finish" /\ requests[event.id].type = "moveJoints")
  => LET target == requests[event.id].target
         pose == calculateForwardKinematics(target)
     IN /\ requests[event.id].status = "resolved"
        /\ state.joints = target
        /\ state.position = [x |-> pose.x, y |-> pose.y, z |-> pose.z]
        /\ state.orientation = [rx |-> pose.rx, ry |-> pose.ry, rz |-> pose.rz]
        /\ resolvedAt[event.id].joints = target
        /\ resolvedAt[event.id].position = state.position

\* a moveJoints to (90,0,0,0,0,0) has just completed, away from the pose the
\* robot started in
C12_Witness ==
  /\ event.op = "finish"
  /\ requests[event.id].type = "moveJoints"
  /\ requests[event.id].target = << 90, 0, 0, 0, 0, 0 >>
  /\ state.joints = << 90, 0, 0, 0, 0, 0 >>
  /\ state.position # [x |-> initialPose.x, y |-> initialPose.y, z |-> initialPose.z]

\* C13: in the step in which a Cartesian move completes, its promise is
\* resolved and the state it delivers reads position = the commanded target
C13_CartesianMoveDeliversTarget ==
  (event.op = "finish" /\ requests[event.id].type = "moveTo")
  => /\ requests[event.id].status = "resolved"
     /\ ResolvedValue(event.id).position = Pos(requests[event.id].target)
     /\ resolvedAt[event.id].position = Pos(requests[event.id].target)

\* a moveTo to (0,0,220) has just completed and delivered its state
C13_Witness ==
  /\ event.op = "finish"
  /\ requests[event.id].type = "moveTo"
  /\ requests[event.id].target = << 0, 0, 220 >>
  /\ requests[event.id].status = "resolved"
  /\ ResolvedValue(event.id).position = [x |-> 0, y |-> 0, z |-> 220]

\* the step has started request id
BeganNow(id) == \E k \in 1..Len(event.began) : event.began[k] = id

\* C14: for Cartesian moves A and B where B's call came right after A's, B
\* does not settle before A has, and B starts interpolating from the joints
\* and position with which A ended
C14_SecondStartsWhereFirstEnded ==
  \A a, b \in Ids :
     (/\ requests[a].type = "moveTo" /\ requests[b].type = "moveTo"
      /\ requests[b].follows = a)
     => /\ Settled(b) => Settled(a)
        /\ BeganNow(b) => /\ a \in DOMAIN resolvedAt
                          /\ state.joints = resolvedAt[a].joints
                          /\ state.position = resolvedAt[a].position
        /\ \A x \in active :
              x.id = b => /\ a \in DOMAIN resolvedAt
                          /\ x.start = PosSeq(resolvedAt[a].position)

\* a vector in the units of the interpolated values (1/steps)
Scaled(v) == [k \in 1..Len(v) |-> IF v[k] = NaN THEN NaN ELSE steps * v[k]]

\* C15: while a move is executing and has emitted step i, RobotState holds
\* the i-th interpolated value: position for a Cartesian move, joints for a
\* joint move
C15_StateFollowsSteps ==
  \A a \in active :
     IF a.type = "moveTo"
     THEN Scaled(PosSeq(state.position)) = InterpPosition(a.start, a.target, a.i)
     ELSE /\ state.joints # NULL
          /\ Scaled(state.joints) = InterpJoints(a.start, a.target, a.i)

\* the step a request has emitted last in the set of executing moves act
StepOf(act, id) == IF \E a \in act : a.id = id
                   THEN (CHOOSE a \in act : a.id = id).i
                   ELSE 0

\* the progress notifications and the positionChanged events of request id in
\* the emissions em of one step
UpdatesOf(em, id) ==
  SelectSeq(em, LAMBDA e : e.id = id /\ e.name \in {"positionUpdate", "jointsUpdate"})
ChangedOf(em, id) ==
  SelectSeq(em, LAMBDA e : e.id = id /\ e.name = "positionChanged")

C17_IsMovingTracksExecution ==
  /\ active # {} => state.isMoving
  /\ (moveQueue = << >> /\ \A id \in Ids : requests[id].type # "none" => Settled(id))
       => ~state.isMoving

\* C18: a setGripper call whose position is below 0 or above 100 ends with
\* the invalid-gripper-position error, makes no timer and no promise, emits
\* nothing and leaves RobotState as it is; no pending timer carries such a
\* position, so the gripper is never written on behalf of such a call
C18_InvalidGripperRejected ==
  [][/\ (event'.op = "setGripper" /\ (event'.target[1] < 0 \/ event'.target[1] > 100))
          => /\ event'.result = "InvalidGripperPosition"
             /\ gripperTimers' = gripperTimers
             /\ gripperPromises' = gripperPromises
             /\ event'.emitted = << >>
             /\ state' = state
     /\ \A k \in 1..Len(gripperTimers') :
           gripperTimers'[k].position >= 0 /\ gripperTimers'[k].position <= 100]_vars

\* setGripper(150) has just been refused while the timer of an earlier
\* setGripper is pending
C18_Witness ==
  /\ event.op = "setGripper"
  /\ event.target[1] = 150
  /\ event.result = "InvalidGripperPosition"
  /\ gripperTimers # << >>

\* accepted setGripper call g waits for its timer
GripperPending(g) ==
  g <= Len(gripperPromises) /\ gripperPromises[g].status = "pending"

\* the promise of setGripper call g was resolved with a gripper that read the
\* commanded position, and isOpen as that position demands
GripperResolved(g) ==
  /\ g <= Len(gripperPromises)
  /\ gripperPromises[g].status = "resolved"
  /\ gripperPromises[g].resolvedAt.position = gripperPromises[g].position
  /\ gripperPromises[g].resolvedAt.isOpen = (gripperPromises[g].position < 50)

\* C19: the gripper position is always within 0..100 and isOpen is true
\* exactly when the position is below 50, whatever the interleaving of
\* setGripper calls, moves and emergencyStop; and every accepted setGripper(p)
\* is eventually resolved with position = p (isOpen for p = 0, not for p = 50
\* or p = 100)
C19_GripperInvariantAndResolution ==
  /\ [](/\ state.gripper.position >= 0 /\ state.gripper.position <= 100
        /\ state.gripper.isOpen <=> (state.gripper.position < 50))
  /\ \A g \in Ids : GripperPending(g) ~> GripperResolved(g)

\* two setGripper calls have been resolved in turn, the later one to 50
\* (closed), while a move is executing
C19_Witness ==
  /\ Len(gripperPromises) = 2
  /\ GripperResolved(1) /\ GripperResolved(2)
  /\ gripperPromises[2].position = 50
  /\ state.gripper = [isOpen |-> FALSE, position |-> 50, force |-> 50]
  /\ active # {}

\* C20: home is a joint move to the home angles that went through the queue;
\* in the step in which home() completes, joints is the home angles, isHomed
\* is true, 'homed' has been emitted after the move's positionChanged, and
\* the promise of home() is resolved with the RobotState
C20_HomeCompletes ==
  (event.op = "finish" /\ requests[event.id].home)
  => /\ requests[event.id].type = "moveJoints"
     /\ requests[event.id].target = homeJointAngles
     /\ state.joints = homeJointAngles
     /\ state.isHomed
     /\ \E i, j \in 1..Len(event.emitted) :
           /\ i < j
           /\ event.emitted[i].name = "positionChanged" /\ event.emitted[i].id = event.id
           /\ event.emitted[j].name = "homed" /\ event.emitted[j].id = event.id
     /\ requests[event.id].returned = "this.state"

\* C21: a request is taken off the queue and started only once, while it is
\* pending and has not started before; once its promise is settled its
\* status never changes, and a settled request (resolved or failed) is
\* neither in the queue nor started again
C21_BeginsAndSettlesOnce ==
  [][\A id \in Ids :
       /\ Cardinality({k \in 1..Len(event'.began) : event'.began[k] = id}) <= 1
       /\ Cardinality({k \in 1..Len(moveQueue') : moveQueue'[k].id = id}) <= 1
       /\ (\E k \in 1..Len(event'.began) : event'.began[k] = id)
            => /\ ~Began(id)
               /\ \A k \in 1..Len(moveQueue') : moveQueue'[k].id # id
       /\ Settled(id)
            => /\ requests'[id] = requests[id]
               /\ id \notin {a.id : a \in active'}
               /\ \A k \in 1..Len(moveQueue') : moveQueue'[k].id # id
       /\ requests'[id].status = "rejected"
            => /\ id \notin {a.id : a \in active'}
               /\ \A k \in 1..Len(moveQueue') : moveQueue'[k].id # id]_vars

\* a request has failed, and a request submitted after it has since been
\* executed to completion
C21_Witness ==
  \E a, b \in Ids :
     /\ a < b
     /\ requests[a].status = "rejected"
     /\ requests[b].status = "resolved"
     /\ moveQueue = << >>
     /\ active = {}

\* C22: when inverseKinematics leaves its loop without having reached the
\* tolerance, the caller can see that and RobotVisualizer.moveToPosition
\* does not pass the returned joint vector on to setAllJoints
C22_NotConvergedNotCommanded ==
  (ikCall.caller = "moveToPosition" /\ ikCall.result.branch = "exhausted")
  => /\ ikCall.commanded = << >>
     /\ ikCall.result.thrown

\* C23: inverseKinematics returns (or throws) after at most maxIterations
\* passes of its loop, and it returns the joint angles of the first pass
\* whose position error is below the tolerance, in that very pass
C23_TerminatesWithinMaxIterations ==
  ikCall.caller # "none"
  => LET r == ikCall.result
         n == Len(r.visited)
         Below(k) == LET current == forwardKinematics(r.visited[k])
                     IN ~current.thrown
                        /\ BelowTolerance(Pos(ikCall.target), current.position)
     IN /\ r.branch \in { "converged", "exhausted", "throw" }
        /\ n <= maxIterations
        /\ \A k \in 1..n :
              Below(k) => k = n /\ r.branch = "converged" /\ r.value = r.visited[k]
        /\ r.branch = "converged" => n >= 1 /\ Below(n)
        /\ r.branch = "exhausted" => n = maxIterations /\ r.iteration = maxIterations

\* a call has used up all its passes without reaching the tolerance
C23_Witness ==
  /\ ikCall.result.branch = "exhausted"
  /\ Len(ikCall.result.visited) = maxIterations
  /\ ~HasNaN(ikCall.result.visited[1])
  /\ ikCall.result.value = NaNVector

\* the joints of a vector that lie outside the limits the validator was
\* configured with
OutsideConfigured(joints) ==
  { i \in 1..Len(joints) :
      /\ i <= Len(validator.configured)
      /\ \/ joints[i] < validator.configured[i].min
         \/ joints[i] > validator.configured[i].max }

\* C24: validateJoints reports valid = false exactly when some joint is below
\* the configured min or above the configured max of its index, and lists
\* one violation per such joint with its index, angle and limit
C24_ViolationsMatchConfiguredLimits ==
  coordCall.op = "JointLimits.validateJoints"
  => LET joints == coordCall.input
         r == coordCall.result
     IN /\ r.valid <=> OutsideConfigured(joints) = {}
        /\ Len(r.violations) = Cardinality(OutsideConfigured(joints))
        /\ \A i \in OutsideConfigured(joints) :
              \E k \in 1..Len(r.violations) :
                 /\ r.violations[k].joint = i - 1
                 /\ r.violations[k].angle = joints[i]
                 /\ r.violations[k].limit.min = validator.configured[i].min
                 /\ r.violations[k].limit.max = validator.configured[i].max

\* C25: clamping a clamped joint vector changes nothing, and a clamped
\* vector passes validateJoints of the same limits
C25_ClampJointsIdempotent ==
  coordCall.op = "JointLimits.clampJoints"
  => LET clamped == coordCall.result
     IN /\ clampJoints(validator.jointLimits, clamped) = clamped
        /\ JointLimits_validateJoints(validator.jointLimits, clamped).valid
        /\ Len(clamped) = Len(coordCall.input)

\* a vector with a joint above its limit, a joint below its limit and a
\* joint without a limit has been clamped
C25_Witness ==
  /\ coordCall.op = "JointLimits.clampJoints"
  /\ Len(validator.jointLimits.limits) = 2
  /\ Len(coordCall.input) = 3
  /\ coordCall.input[1] > validator.jointLimits.limits[1].max
  /\ coordCall.input[2] > validator.jointLimits.limits[2].max
  /\ coordCall.result # coordCall.input

\* C26: the clamped position is inside the workspace; a coordinate within
\* its axis' bounds is kept and one outside is moved to the bound it
\* passed, so a position inside the workspace is returned as it is
C26_ClampPositionToNearestBound ==
  coordCall.op = "Workspace.clampPosition"
  => LET p == Pos(coordCall.input)
         c == Pos(coordCall.result)
         b == validator.workspace.bounds
         Axis(lo, hi, before, after) ==
           /\ before < lo => after = lo
           /\ before > hi => after = hi
           /\ (before >= lo /\ before <= hi) => after = before
     IN /\ isPositionValid(validator.workspace, c)
        /\ isPositionValid(validator.workspace, p) => c = p
        /\ Axis(b.x.min, b.x.max, p.x, c.x)
        /\ Axis(b.y.min, b.y.max, p.y, c.y)
        /\ Axis(b.z.min, b.z.max, p.z, c.z)

\* a position above the x bound, below the z bound and within the y bounds
\* has been clamped
C26_Witness ==
  /\ coordCall.op = "Workspace.clampPosition"
  /\ validator.workspace.bounds = testBounds
  /\ coordCall.input = << 150, 50, -50 >>
  /\ coordCall.result = << 100, 50, 0 >>

\* C27: the validator reports valid = false for a position outside the
\* workspace and for joints outside the configured limits, with or without
\* autoCorrect; it returns a corrected value only for an invalid input with
\* autoCorrect; and it leaves its argument as it was
C27_ValidatorNeverClampsSilently ==
  /\ coordCall.op = "CoordinateValidator.validatePosition"
     => /\ ~isPositionValid(validator.workspace, Pos(coordCall.input))
             => ~coordCall.result.valid
        /\ coordCall.result.corrected # NULL
             => ~coordCall.result.valid /\ coordCall.autoCorrect
        /\ coordCall.argument = coordCall.input
  /\ coordCall.op = "CoordinateValidator.validateJoints"
     => /\ OutsideConfigured(coordCall.input) # {} => ~coordCall.result.valid
        /\ coordCall.result.corrected # NULL
             => ~coordCall.result.valid /\ coordCall.autoCorrect
        /\ coordCall.argument = coordCall.input

\* C28: the default RobotSimulator answers the inputs of its tests as the
\* tests expect: validatePosition is false for (1000, 0, 200) and
\* (0, 0, -100), validateJoints is false for joint 1 at 200 and for joint 2
\* at 100, and moveTo (1000, 1000, 1000) is rejected as out of workspace
C28_DefaultLimitsAsTestsAssume ==
  /\ (event.op = "validatePosition"
        /\ event.target \in { << 1000, 0, 200 >>, << 0, 0, -100 >> })
     => event.result = "false"
  /\ (event.op = "validateJoints"
        /\ event.target \in { << 200, 0, 0, 0, 0, 0 >>, << 0, 100, 0, 0, 0, 0 >> })
     => event.result = "false"
  /\ (event.op = "moveTo" /\ event.target = << 1000, 1000, 1000 >>)
     => event.result = "OutOfWorkspace"

\* C29: createDriver returns a MockRobotDriver for every type string
C29_FactoryAlwaysReturnsMock ==
  driverCall.op = "createDriver" => driverCall.result = "MockRobotDriver"

\* C30: connect() resolves with true and leaves the driver connected; on a
\* connected driver moveToPosition to a target inside the workspace is
\* carried out, and when its move completes getCurrentPosition reports the
\* target's x, y and z
C30_ConnectAndMoveAlwaysSucceed ==
  /\ driverCall.op = "connectSettled"
     => driverCall.result = "true" /\ driver.isConnected
  /\ (driverCall.op = "moveToPosition" /\ driverCall.connected
        /\ validatePosition(Pos(driverCall.target)))
     => driverCall.result = "accepted"
  /\ (event.op = "finish" /\ requests[event.id].type = "moveTo" /\ driver.isConnected)
     => /\ requests[event.id].status = "resolved"
        /\ SubSeq(getCurrentPosition(driver, state), 1, 3) = requests[event.id].target

(***************************************************************************)
(* Kinematics round trip                                                   *)
(***************************************************************************)
Abs(n) == IF n < 0 THEN -n ELSE n

\* C31: for a joint vector within limits whose position the geometric inverse
\* kinematics can solve, the forward kinematics of the solution is the
\* position the joint vector gave, within 1e-3 mm (one micrometre) on every
\* axis.
C31_RoundTripReproducesPosition ==
  roundTrip.stage = "reproduced" =>
    \A i \in 1..3 :
       Abs(roundTrip.reproduced[i] - 1000 * roundTrip.position[i]) <= 1

(***************************************************************************)
(* Requests and their handles                                              *)
(***************************************************************************)
\* C32: no accepted move request is dropped with its handle left pending:
\* a request whose promise is pending is still in moveQueue or inside its
\* executeMove, the only places from which its resolve and reject can be
\* reached (so that, the timers firing, it is settled eventually).
C32_PendingRequestIsQueuedOrExecuting ==
  \A id \in Ids :
     requests[id].status = "pending" =>
        \/ id \in ActiveIds
        \/ \E k \in 1..Len(moveQueue) : moveQueue[k].id = id

(***************************************************************************)
(* RobotState.joints and failed executions                                 *)
(***************************************************************************)
\* C33: in every reachable state RobotState.joints is a vector of exactly 6
\* numbers, each within the configured limits of its joint.
C33_JointsAreSixAnglesInRange ==
  /\ Len(state.joints) = 6
  /\ \A i \in 1..Len(state.joints) :
       /\ state.joints[i] # NaN
       /\ state.joints[i] >= jointLimits[i].min
       /\ state.joints[i] <= jointLimits[i].max

\* the requests that a step settles the given way
SettledNow(status) ==
  {id \in Ids : requests[id].status = "pending" /\ requests'[id].status = status}

\* RobotState as it was when the request rejected in this step started to
\* execute: a request is rejected at the start of its executeMove, which
\* runs in the call that submitted it or right after the request before it
\* was resolved, in the same step
StateAtStart ==
  IF SettledNow("resolved") = {} THEN state
  ELSE resolvedAt'[CHOOSE id \in SettledNow("resolved") : TRUE]

C35_HomedMeansAtHome ==
  state.isHomed => state.joints = homeJointAngles

(***************************************************************************)
(* The driver's connection                                                 *)
(***************************************************************************)
\* the driver operations the claim lists as needing a connection
ConnectionGuardedOps ==
  { "moveToPosition", "moveJoints", "setGripperPosition", "openGripper",
    "closeGripper", "homeRobot", "getCurrentPosition", "getCurrentJoints",
    "getGripperState", "getRobotStatus" }

\* this step is a call on the driver
DriverCallStep(ops) == driverCall' # driverCall /\ driverCall'.op \in ops

SimulatorUntouched ==
  UNCHANGED << state, moveQueue, isProcessingQueue, active, requests,
               nextId, gripperTimers, gripperPromises >>

\* C36: while the driver is not connected, the operations that need a
\* connection fail with the not-connected error, enqueue nothing and leave
\* the simulator as it was; emergencyStop succeeds connected or not; and
\* disconnect leaves the queued and the executing moves alone.
C36_ConnectionGuard ==
  [][ /\ (DriverCallStep(ConnectionGuardedOps) /\ ~driver.isConnected) =>
            /\ driverCall'.result = "NotConnected"
            /\ SimulatorUntouched
      /\ DriverCallStep({"emergencyStop"}) =>
            /\ driverCall'.result = "true"
            /\ event'.op = "emergencyStop"
            /\ moveQueue' = << >>
            /\ ~state'.isMoving
      /\ DriverCallStep({"disconnect"}) =>
            /\ ~driver'.isConnected
            /\ driverCall'.result = "true"
            /\ SimulatorUntouched ]_vars

\* an operation was refused on a disconnected driver while one move was
\* executing and another was waiting in the queue
C36_Witness ==
  /\ ~driver.isConnected
  /\ driverCall.op \in ConnectionGuardedOps
  /\ driverCall.result = "NotConnected"
  /\ active # {}
  /\ moveQueue # << >>

(***************************************************************************)
(* Events delivered through the driver                                     *)
(***************************************************************************)
\* the names the simulator emitted in the last macrotask, in order
EmittedNames == [k \in 1..Len(event.emitted) |-> event.emitted[k].name]

\* the seven events the claim lists
CollaboratorEvents ==
  { "positionChanged", "positionUpdate", "jointsUpdate", "gripperChanged",
    "homed", "emergencyStop", "error" }

IsCollaboratorEvent(name) == name \in CollaboratorEvents

\* C37 (first half): every simulator emission of one of the seven events
\* reaches the driver's listeners exactly once and in emission order.
C37_SimulatorEventsForwarded ==
  driverEmit(EmittedNames) = SelectSeq(EmittedNames, IsCollaboratorEvent)

\* C37: the above, and a listener registered on the driver for 'connected'
\* or 'disconnected' is notified when connect() succeeds or disconnect() is
\* called.
C37_EventsDeliveredThroughDriver ==
  /\ C37_SimulatorEventsForwarded
  /\ (driverCall.op = "connectSettled" /\ driverCall.result = "true") =>
        \E k \in 1..Len(driverEmit(driverCall.emitted)) :
           driverEmit(driverCall.emitted)[k] = "connected"
  /\ driverCall.op = "disconnect" =>
        \E k \in 1..Len(driverEmit(driverCall.emitted)) :
           driverEmit(driverCall.emitted)[k] = "disconnected"

(***************************************************************************)
(* The speed override                                                      *)
(***************************************************************************)
\* this step is a setRobotSpeed call that passed the range check
AcceptedSpeedCall == driver'.speedCalls = driver.speedCalls + 1

\* C38: setRobotSpeed with the percentage of the setRobotSpeed call right
\* before it leaves maxSpeed as that call left it; setRobotSpeed(100) leaves
\* the configured maxSpeed, whatever was set before; a percentage outside
\* 1..100 is rejected and maxSpeed stays.
C38_SpeedOverrideRelativeToConfigured ==
  [][ /\ ( /\ AcceptedSpeedCall
           /\ driverCall.op = "setRobotSpeed" /\ driverCall.result = "true"
           /\ driverCall'.target = driverCall.target ) =>
              driver'.maxSpeed = driver.maxSpeed
      /\ (AcceptedSpeedCall /\ driverCall'.target = << 100 >>) =>
              driver'.maxSpeed = MockRobotDriver.maxSpeed
      /\ ( /\ DriverCallStep({"setRobotSpeed"})
           /\ (driverCall'.target[1] < 1 \/ driverCall'.target[1] > 100) ) =>
              /\ driverCall'.result = "SpeedRange"
              /\ driver'.maxSpeed = driver.maxSpeed ]_vars

(***************************************************************************)
(* Paths in the workspace                                                  *)
(***************************************************************************)
\* C39: isPathValid(start, end, steps) with steps >= 1 returns true exactly
\* when start and end are both inside the workspace.
C39_PathValidIffEndpointsValid ==
  coordCall.op = "Workspace.isPathValid" =>
     (coordCall.result <=>
        (/\ isPositionValidDouble(validator.workspace, coordCall.input[1])
         /\ isPositionValidDouble(validator.workspace, coordCall.input[2])))

====
